---- MODULE Spec2Model ----
(***************************************************************************)
(* A model of the layout auto-flow and raster compositing engine of the    *)
(* cherkizovo design service (universalEngine, textLayout, figmaLayout).   *)
(*                                                                         *)
(* Numbers.  The engine computes with JavaScript numbers (IEEE-754         *)
(* binary64).  The model keeps the three features of that arithmetic the   *)
(* engine's behaviour depends on:                                          *)
(*   - a finite number is an integer count of half pixels (Px(n) is n      *)
(*     pixels);                                                            *)
(*   - NaN, +Infinity and -Infinity are separate values, and every         *)
(*     comparison with NaN is false;                                       *)
(*   - a sum or difference of fractional pixel values is rounded to the    *)
(*     nearest value with MantBits significant bits, ties to even (Fl).    *)
(*     Whole pixel values below 2^MantBits pixels are exact, as whole      *)
(*     numbers below 2^53 are in the engine.                               *)
(***************************************************************************)
EXTENDS Integers, Sequences, FiniteSets, TLC

VARIABLES
  pc,           \* the position of the entry point being run
  \* textLayout.wrapTextByWords
  text,         \* the text argument
  maxWidthPx,   \* the width budget
  font,         \* the loaded font (an index into Fonts)
  letterSpacingPx, \* the letter spacing argument
  lines,        \* the returned lines
  relines,      \* the lines returned by wrapping lines joined by line breaks
  \* universalEngine.sanitizeBox and normalizeCompositeItem
  box,          \* the box handed to the guard
  safe,         \* the guard's answer: a rounded box or Null
  item,         \* the composite item made of an accepted box, or Null
  \* renderUniversalTemplate: its input and the object storage
  frameNode,    \* input.frameNode: the raw nodes of the frame
  assetsMap,    \* input.frameNode.assetsMap: node id -> object key (NoStr: none)
  fields,       \* input.fields: node name -> value (NoStr: no such field)
  storage,      \* the bucket: object key -> "ok", "missing" or "denied"
  \* renderUniversalTemplate: its locals and the render context
  tree,         \* buildLayoutTree(input.frameNode)
  frameX, frameY, frameW, frameH,
  computedBoxes, \* context.computedBoxes
  todo,         \* the nodes renderNodeTree has still to visit, in order
  visited,      \* the visible nodes renderNodeTree was called on
  layers,       \* allLayers
  badBoxes,     \* context.badBoxes
  fieldsUsed,   \* context.fieldsUsed
  skippedPhotoReason, \* context.skippedPhotoReason
  assetsCache,  \* context.assetsCache: the keys fetched
  composite,    \* the composite list handed to sharp
  result,       \* the returned image: its size and composite list, or Null
  error,        \* the error the render threw, or Null
  \* textLayout.loadFontCached
  fontCache,    \* the module's fontCache: font path -> promise (0: no entry)
  promises,     \* the promises made by readFile(...).then(parse), in order of creation
  callers,      \* the asynchronous callers of loadFontCached
  \* textLayout.truncateLines
  lineLimit,    \* the maxLines argument
  ellipsis,     \* options.ellipsis
  widthCtx,     \* whether the options hold maxWidthPx, font, fontSizePx and letterSpacingPx
  truncated,    \* the returned lines
  \* figmaClient.figmaFetchRawWithOptions
  options,      \* the options argument: maxRetries (NoNum: absent) and sleepOn429
  attempt,      \* the loop counter
  sent,         \* the number of HTTP requests issued
  responses,    \* what each request came back with, in order
  delay,        \* the milliseconds of the last sleep before a retry
  fetchResult,  \* Null, the data returned or the error thrown
  \* POST /api/admin/sync
  syncRunning,  \* the module's syncRunning flag, one for each server process
  requests,     \* the requests: their process, position and locals
  clock,        \* Date.now()
  bucket,       \* the object storage: the sync lock object of the file key
  writeLog      \* the objects each request wrote or deleted

wrapVars == <<text, maxWidthPx, font, letterSpacingPx, lines, relines>>
guardVars == <<box, safe, item>>
inputVars == <<frameNode, assetsMap, fields, storage>>
contextVars == <<tree, frameX, frameY, computedBoxes>>
walkVars == <<todo, visited, layers, fieldsUsed, skippedPhotoReason, assetsCache>>
outVars == <<composite, result, error>>
fontVars == <<fontCache, promises, callers>>
truncVars == <<lineLimit, ellipsis, widthCtx, truncated>>
\* the variables of the renderer, and those of the services beside it
renderVars == <<wrapVars, guardVars, inputVars, contextVars, frameW, frameH, walkVars,
                badBoxes, outVars>>
figmaVars == <<options, attempt, sent, responses, delay, fetchResult>>
syncVars == <<syncRunning, requests, clock, bucket, writeLog>>
serviceVars == <<fontVars, truncVars, figmaVars, syncVars>>
vars == <<pc, renderVars, serviceVars>>

(***************************************************************************)
(* Bounds of the model.                                                    *)
(***************************************************************************)
MantBits == 10
MaxTextLen == 5

Px(n) == 2 * n

(***************************************************************************)
(* JavaScript numbers.                                                     *)
(***************************************************************************)
NaN == -(2 ^ 30)
PosInf == 2 ^ 30 - 1
NegInf == 1 - 2 ^ 30
\* an absent (undefined) number
NoNum == 2 ^ 30 - 2

IsNaN(x) == x = NaN
\* Number.isFinite
IsFinite(x) == x # NaN /\ x # PosInf /\ x # NegInf /\ x # NoNum

\* a <= b, a >= b, a < b, a > b: false as soon as one side is NaN
Le(a, b) == ~IsNaN(a) /\ ~IsNaN(b) /\ a <= b
Ge(a, b) == ~IsNaN(a) /\ ~IsNaN(b) /\ a >= b
Lt(a, b) == ~IsNaN(a) /\ ~IsNaN(b) /\ a < b
Gt(a, b) == ~IsNaN(a) /\ ~IsNaN(b) /\ a > b

\* Math.max and Math.min return NaN when an argument is NaN
MathMax(a, b) == IF IsNaN(a) \/ IsNaN(b) THEN NaN ELSE IF a >= b THEN a ELSE b
MathMin(a, b) == IF IsNaN(a) \/ IsNaN(b) THEN NaN ELSE IF a <= b THEN a ELSE b

Abs(x) == IF x < 0 THEN -x ELSE x
\* Math.abs
MathAbs(x) == IF IsNaN(x) THEN NaN ELSE IF ~IsFinite(x) THEN PosInf ELSE Abs(x)

RECURSIVE BitLen(_)
BitLen(n) == IF n = 0 THEN 0 ELSE 1 + BitLen(n \div 2)

\* m >= 0 rounded to a multiple of q, to the nearest, a tie to the even multiple
RoundTo(m, q) ==
  IF 2 * (m % q) > q \/ (2 * (m % q) = q /\ (m \div q) % 2 = 1)
  THEN (m \div q + 1) * q
  ELSE (m \div q) * q

\* m >= 0 rounded to MantBits significant bits
FlAbs(m) == IF BitLen(m) <= MantBits THEN m ELSE RoundTo(m, 2 ^ (BitLen(m) - MantBits))

\* round to nearest, ties to even, to MantBits significant bits
Fl(x) == IF ~IsFinite(x) THEN x ELSE IF x < 0 THEN -FlAbs(-x) ELSE FlAbs(x)

\* Math.round: to the nearest whole pixel, a half rounded up
MathRound(x) == IF ~IsFinite(x) THEN x ELSE ((x + 1) \div Px(1)) * Px(1)

Neg(a) == IF a = PosInf THEN NegInf ELSE IF a = NegInf THEN PosInf ELSE IF IsNaN(a) THEN NaN ELSE -a

\* a + b and a - b as the engine computes them
Add(a, b) ==
  IF IsNaN(a) \/ IsNaN(b) THEN NaN
  ELSE IF IsFinite(a) /\ IsFinite(b) THEN Fl(a + b)
  ELSE IF IsFinite(a) THEN b
  ELSE IF IsFinite(b) \/ a = b THEN a
  ELSE NaN
Sub(a, b) == Add(a, Neg(b))
\* k * a for a count k >= 0
Times(k, a) ==
  IF IsNaN(a) THEN NaN
  ELSE IF IsFinite(a) THEN Fl(k * a)
  ELSE IF k = 0 THEN NaN ELSE a
\* a / 2: exact for a whole number of half pixels that is even, and the nearest
\* half pixel (ties to even) otherwise
Half(a) ==
  IF ~IsFinite(a) THEN a
  ELSE IF a % 2 = 0 \/ (a \div 2) % 2 = 0 THEN a \div 2 ELSE a \div 2 + 1
\* Math.floor(a / k) for a count k > 0: whole pixels
FloorDiv(a, k) == IF ~IsFinite(a) THEN a ELSE Px(a \div (Px(1) * k))
\* Math.round(a / 2 - b / 2), from the exact quarter pixels
RoundHalfDiff(a, b) ==
  IF ~IsFinite(Sub(a, b)) THEN Sub(a, b) ELSE Px((a - b + 2) \div 4)
\* a clamp that leaves the value where it is
unclamped(value, min, max) == value
\* clamp(value, min, max): Math.min(max, Math.max(min, value))
clamp(value, min, max) == MathMin(max, MathMax(min, value))
toInt(value) == MathRound(value)
ensureLayerGeometry(value, fallback) ==
  IF ~IsFinite(value) THEN fallback ELSE MathMax(fallback, MathRound(value))

(***************************************************************************)
(* universalEngine: the Geometry Guard.  Null is the guard's null.         *)
(***************************************************************************)
Null == [null |-> TRUE]
\* an absent (undefined) string
NoStr == "undefined"

MaxLayerSidePx == 12000
MaxLayerAreaPx == 200000000

\* width * height <= 200_000_000, in half pixels squared.  It is the last
\* test of the guard's disjunction: it decides only for a finite width and
\* height that passed widthOk and heightOk.
areaOk(width, height) == width * height <= MaxLayerAreaPx * Px(1) * Px(1)

\* a guard that does not test the width
boxOkWhateverWidth(bx, fw, fh) ==
  /\ IsFinite(bx.left) /\ IsFinite(bx.top) /\ IsFinite(bx.height)
  /\ Ge(bx.height, Px(1)) /\ Le(bx.height, MathMin(fh * 4, Px(MaxLayerSidePx)))
  /\ Ge(bx.left, -fw * 2) /\ Ge(bx.top, -fh * 2)

\* the four tests of the guard on a box that is not null
boxOk(bx, fw, fh) ==
  /\ IsFinite(bx.left) /\ IsFinite(bx.top) /\ IsFinite(bx.width) /\ IsFinite(bx.height)
  /\ Ge(bx.width, Px(1)) /\ Le(bx.width, MathMin(fw * 4, Px(MaxLayerSidePx)))
  /\ Ge(bx.height, Px(1)) /\ Le(bx.height, MathMin(fh * 4, Px(MaxLayerSidePx)))
  /\ Ge(bx.left, -fw * 2) /\ Ge(bx.top, -fh * 2)
  /\ areaOk(bx.width, bx.height)

sanitizeBox(bx, fw, fh) ==
  IF bx = Null THEN Null
  ELSE IF ~boxOk(bx, fw, fh) THEN Null
  ELSE [left |-> MathRound(bx.left), top |-> MathRound(bx.top),
        width |-> MathRound(bx.width), height |-> MathRound(bx.height)]

\* the entry sanitizeBox pushes to badBoxes when it rejects a box; a label is a
\* tuple (kind, node id) or (kind, node id, suffix)
badBox(label, b) == [label |-> label, bx |-> b]

SafeBox(left, top, width, height) == [left |-> left, top |-> top, width |-> width, height |-> height]

\* a layer: the node it is drawn for, its box, and the size of its bitmap
Layer(nodeId, b) ==
  [nodeId |-> nodeId, left |-> b.left, top |-> b.top, width |-> b.width, height |-> b.height,
   input |-> [width |-> b.width, height |-> b.height]]

\* normalizeCompositeItem, once the intersection with the canvas is known: the
\* overlay is resized to the box and, when the box crosses the canvas' edge,
\* cropped to the intersection
croppedItem(baseW, baseH, layer, ok, interLeft, interTop, interW, interH) ==
  LET cropped == interW # ok.width \/ interH # ok.height
      overlay == IF cropped
                 THEN [width |-> MathMax(Px(1), MathRound(interW)),
                       height |-> MathMax(Px(1), MathRound(interH))]
                 ELSE [width |-> ok.width, height |-> ok.height]
      out == IF cropped THEN SafeBox(interLeft, interTop, interW, interH) ELSE ok
  IN  IF Le(interW, 0) \/ Le(interH, 0)
      THEN [item |-> Null, bad |-> <<>>]
      ELSE IF Gt(overlay.width, baseW) \/ Gt(overlay.height, baseH)
      THEN [item |-> Null,
            bad |-> <<badBox(<<"composite", layer.nodeId, "overlay-too-large">>,
                             SafeBox(out.left, out.top, overlay.width, overlay.height))>>]
      ELSE [item |-> [nodeId |-> layer.nodeId, input |-> overlay, left |-> out.left,
                      top |-> out.top, width |-> out.width, height |-> out.height],
            bad |-> <<>>]

\* normalizeCompositeItem, once the guard has answered for the intended box
intersectedItem(baseW, baseH, layer, intended, ok) ==
  IF ok = Null
  THEN [item |-> Null, bad |-> <<badBox(<<"composite", layer.nodeId, "intended">>, intended)>>]
  ELSE croppedItem(baseW, baseH, layer, ok, MathMax(ok.left, 0), MathMax(ok.top, 0),
                   Sub(MathMin(Add(ok.left, ok.width), baseW), MathMax(ok.left, 0)),
                   Sub(MathMin(Add(ok.top, ok.height), baseH), MathMax(ok.top, 0)))

\* normalizeCompositeItem, for the intended box of the layer
intendedItem(baseW, baseH, layer, intended) ==
  intersectedItem(baseW, baseH, layer, intended, sanitizeBox(intended, baseW, baseH))

\* normalizeCompositeItem: the composite item of a layer (Null when the layer
\* is dropped) and the entries pushed to badBoxes
normalizeCompositeItem(baseW, baseH, layer) ==
  IF Le(layer.input.width, 0) \/ Le(layer.input.height, 0)
  THEN [item |-> Null, bad |-> <<badBox(<<"composite", layer.nodeId, "empty-overlay">>, Null)>>]
  ELSE intendedItem(baseW, baseH, layer,
                    SafeBox(MathRound(layer.left), MathRound(layer.top),
                            MathRound(layer.width), MathRound(layer.height)))

(***************************************************************************)
(* Text.  A string is a sequence of characters; "n" stands for the line    *)
(* break and "s" for a white-space character.                              *)
(***************************************************************************)
Chars == {"a", "b", "s", "n"}
Spaces == {"s"}
Breaks == {"n"}
\* the glyphs of a font: the characters, and the punctuation the quote field
\* adds: "d" the em dash, "l" and "r" the angle quotes
Glyphs == Chars \cup {"d", "l", "r", ".", "!", "?"}

RECURSIVE SeqsUpTo(_, _)
SeqsUpTo(S, n) ==
  IF n = 0 THEN {<<>>}
  ELSE LET shorter == SeqsUpTo(S, n - 1)
       IN  shorter \cup {Append(s, c) : s \in {t \in shorter : Len(t) = n - 1}, c \in S}

Texts == SeqsUpTo(Chars, MaxTextLen)

(***************************************************************************)
(* Fonts: opentype.js getAdvanceWidth(text, size, {kerning: true}) is the  *)
(* sum of the glyph advances plus the kerning of each adjacent pair.       *)
(***************************************************************************)
\* a font is a font file loaded at a size: the advance of each glyph, the
\* kerning of each pair, and the ascent and descent, all in half pixels
FontRecord(file, size, a, b, sp, kab, asc, desc) ==
  [file |-> file, size |-> size,
   adv |-> [c \in Glyphs |-> CASE c = "a" -> a [] c = "b" -> b [] c \in {"s", "."} -> sp
                               [] c = "n" -> 0 [] OTHER -> a],
   kern |-> [p \in Glyphs \X Glyphs |-> IF p = <<"a", "b">> THEN kab ELSE 0],
   ascPx |-> asc, descPx |-> desc]

Fonts ==
  << FontRecord("gothampro_bold.ttf", Px(20), 193, 160, 80, -24, Px(19), Px(5)),
     FontRecord("gothampro.ttf", Px(16), 120, 75, 40, 0, Px(15), Px(4)),
     FontRecord("gothampro_medium.ttf", Px(20), 217, 213, 81, 0, Px(19), Px(5)),
     FontRecord("gothampro_bold.ttf", Px(16), 154, 128, 64, -19, Px(15), Px(4)) >>

RECURSIVE AdvanceSum(_, _)
AdvanceSum(t, f) ==
  IF Len(t) = 0 THEN 0
  ELSE f.adv[t[1]]
       + (IF Len(t) > 1 THEN f.kern[<<t[1], t[2]>>] ELSE 0)
       + AdvanceSum(Tail(t), f)

getAdvanceWidth(t, f) == Fl(AdvanceSum(t, f))

measureTextPx(t, f, ls) ==
  IF Len(t) = 0 THEN 0
  ELSE Add(getAdvanceWidth(t, f), Fl((Len(t) - 1) * ls))

(***************************************************************************)
(* textLayout: splitLongWord and wrapTextByWords.                          *)
(***************************************************************************)
\* an inner loop that stops at the first character that fits
firstFitFrom(word, cursor, end, lastFit, maxW, f, ls) ==
  IF Le(measureTextPx(SubSeq(word, cursor + 1, end), f, ls), maxW) THEN end ELSE lastFit

\* the inner while loop: the end of the longest run of fitting prefixes
RECURSIVE lastFitFrom(_, _, _, _, _, _, _)
lastFitFrom(word, cursor, end, lastFit, maxW, f, ls) ==
  IF end > Len(word) THEN lastFit
  ELSE IF Le(measureTextPx(SubSeq(word, cursor + 1, end), f, ls), maxW)
       THEN lastFitFrom(word, cursor, end + 1, end, maxW, f, ls)
       ELSE lastFit

RECURSIVE splitFrom(_, _, _, _, _)
RECURSIVE splitAt(_, _, _, _, _, _)
splitFrom(word, cursor, maxW, f, ls) ==
  IF cursor >= Len(word) THEN <<>>
  ELSE splitAt(word, cursor, lastFitFrom(word, cursor, cursor + 1, cursor, maxW, f, ls),
               maxW, f, ls)

\* parts.push(word.slice(cursor, lastFit)), a piece of one character at least
splitAt(word, cursor, fit, maxW, f, ls) ==
  <<SubSeq(word, cursor + 1, IF fit = cursor THEN cursor + 1 ELSE fit)>>
  \o splitFrom(word, IF fit = cursor THEN cursor + 1 ELSE fit, maxW, f, ls)

splitLongWord(word, maxW, f, ls) == splitFrom(word, 0, maxW, f, ls)

\* String.prototype.split on a separator character class: the pieces between
\* the separators, empty pieces kept
RECURSIVE SplitOn(_, _, _)
SplitOn(t, cur, seps) ==
  IF Len(t) = 0 THEN <<cur>>
  ELSE IF t[1] \in seps THEN <<cur>> \o SplitOn(Tail(t), <<>>, seps)
       ELSE SplitOn(Tail(t), Append(cur, t[1]), seps)

\* text.split(/\r\n|\n|\u2028/)
Paragraphs(t) == SplitOn(t, <<>>, Breaks)

\* paragraph.split(/\s+/).filter(Boolean)
Words(p) == SelectSeq(SplitOn(p, <<>>, Spaces), LAMBDA w : Len(w) > 0)

JoinSpace(current, word) == IF Len(current) > 0 THEN current \o <<"s">> \o word ELSE word

\* the loop over the words of one paragraph, then lines.push(current)
RECURSIVE wrapWords(_, _, _, _, _, _)
RECURSIVE wrapChunks(_, _, _, _, _, _)
wrapWords(words, current, out, maxW, f, ls) ==
  IF Len(words) = 0 THEN Append(out, current)
  ELSE IF Le(measureTextPx(JoinSpace(current, words[1]), f, ls), maxW)
       THEN wrapWords(Tail(words), JoinSpace(current, words[1]), out, maxW, f, ls)
       ELSE IF Le(measureTextPx(words[1], f, ls), maxW)
            THEN wrapWords(Tail(words), words[1],
                           IF Len(current) > 0 THEN Append(out, current) ELSE out, maxW, f, ls)
            ELSE wrapChunks(Tail(words), splitLongWord(words[1], maxW, f, ls),
                            IF Len(current) > 0 THEN Append(out, current) ELSE out, maxW, f, ls)

\* the chunks of a long word: all but the last are lines, the last is current
wrapChunks(words, chunks, out, maxW, f, ls) ==
  wrapWords(words, chunks[Len(chunks)], out \o SubSeq(chunks, 1, Len(chunks) - 1), maxW, f, ls)

RECURSIVE wrapParagraphs(_, _, _, _, _)
wrapParagraphs(ps, out, maxW, f, ls) ==
  IF Len(ps) = 0 THEN out
  ELSE IF Len(ps[1]) = 0 \/ Len(Words(ps[1])) = 0
       THEN wrapParagraphs(Tail(ps), Append(out, <<>>), maxW, f, ls)
       ELSE wrapParagraphs(Tail(ps), wrapWords(Words(ps[1]), <<>>, out, maxW, f, ls),
                           maxW, f, ls)

\* a trimming that takes the ellipsis off the line it cannot make fit
trimToNothing(last, dots, maxW, f, ls) ==
  IF Len(last) > 0 /\ Gt(measureTextPx(last, f, ls), maxW) THEN <<>> ELSE last

\* the while loop of truncateLines: last.slice(0, -ellipsis.length - 1) and
\* the ellipsis again, until the line fits or nothing but the ellipsis is left
RECURSIVE trimLast(_, _, _, _, _)
trimLast(last, dots, maxW, f, ls) ==
  IF Len(last) > 0 /\ Gt(measureTextPx(last, f, ls), maxW)
  THEN IF Len(last) - Len(dots) - 1 <= 0 THEN dots
       ELSE trimLast(SubSeq(last, 1, Len(last) - Len(dots) - 1) \o dots, dots, maxW, f, ls)
  ELSE last

\* truncateLines(lines, maxLines, options), for maxLines >= 1
truncateLines(ls0, limit, dots, hasWidth, maxW, f, ls) ==
  IF Len(ls0) <= limit THEN ls0
  ELSE Append(SubSeq(ls0, 1, limit - 1),
              IF hasWidth THEN trimLast(ls0[limit] \o dots, dots, maxW, f, ls)
              ELSE ls0[limit] \o dots)

\* a wrap that closes its lines with one more, empty, line
andOneEmptyLine(out) == Append(out, <<>>)

\* lines.length > 0 ? lines : [""]
orOneEmptyLine(out) == IF Len(out) > 0 THEN out ELSE << <<>> >>

\* a wrap that lets a line run 20 pixels over the budget
wrapTextByWordsLoosely(t, maxW, f, ls) ==
  orOneEmptyLine(wrapParagraphs(Paragraphs(t), <<>>, Add(maxW, Px(20)), f, ls))

wrapTextByWords(t, maxW, f, ls) == orOneEmptyLine(wrapParagraphs(Paragraphs(t), <<>>, maxW, f, ls))

\* lines.join("\n")
RECURSIVE JoinLines(_)
JoinLines(ls) ==
  IF Len(ls) = 0 THEN <<>>
  ELSE IF Len(ls) = 1 THEN ls[1]
       ELSE ls[1] \o <<"n">> \o JoinLines(Tail(ls))

(***************************************************************************)
(* figmaLayout: the raw node records and their normalisation.  A tr is a *)
(* sequence of node records; a node's id is its index, the root is node 1, *)
(* and parentId 0 stands for no parent.  Null, NoNum and NoStr stand for   *)
(* an undefined record, number and string; an absent characters string is  *)
(* the empty string, which is what every reader of it makes of it.         *)
(***************************************************************************)
Root == 1

NodeNames == {"frame", "pill", "bg", "logo", "sticker", "marks",
              "text_title", "Text body", "photo_main"}

\* /^text/i.test(name.trim())
isEditableTextName(name) == name \in {"text_title", "Text body"}
\* /^photo/i.test(name.trim())
isEditablePhotoName(name) == name \in {"photo_main"}

getEditableKind(name) ==
  IF isEditableTextName(name) THEN "text"
  ELSE IF isEditablePhotoName(name) THEN "image" ELSE "none"

\* a raw node with every optional property absent
RawNode(parentId, name, type, bbox, children) ==
  [parentId |-> parentId, name |-> name, type |-> type, visible |-> TRUE,
   assetKey |-> NoStr, absoluteBoundingBox |-> bbox, fills |-> <<>>,
   cornerRadius |-> NoNum, layoutMode |-> NoStr,
   paddingLeft |-> NoNum, paddingRight |-> NoNum, paddingTop |-> NoNum, paddingBottom |-> NoNum,
   itemSpacing |-> NoNum, constraints |-> [horizontal |-> NoStr, vertical |-> NoStr],
   layoutSizingHorizontal |-> NoStr, layoutSizingVertical |-> NoStr,
   primaryAxisSizingMode |-> NoStr, counterAxisSizingMode |-> NoStr,
   characters |-> <<>>, style |-> Null, children |-> children]

BBox(x, y, w, h) == [x |-> x, y |-> y, width |-> w, height |-> h]

SolidPaint == [type |-> "SOLID", visible |-> TRUE]
HiddenPaint == [type |-> "SOLID", visible |-> FALSE]
GradientPaint == [type |-> "GRADIENT_LINEAR", visible |-> TRUE]

\* keeps the visible solid paints
normalizeFills(paints) == SelectSeq(paints, LAMBDA p : p.type = "SOLID" /\ p.visible)

normalizeRadii(node) ==
  IF node.cornerRadius # NoNum /\ IsFinite(node.cornerRadius)
  THEN <<node.cornerRadius, node.cornerRadius, node.cornerRadius, node.cornerRadius>>
  ELSE Null

\* a normalisation that gives a node without bounding box an 800 x 600 one
normalizeBboxOrDefault(node) ==
  IF node.absoluteBoundingBox = Null THEN BBox(0, 0, Px(800), Px(600))
  ELSE node.absoluteBoundingBox

normalizeBbox(node) ==
  LET bbox == node.absoluteBoundingBox
  IN  IF bbox = Null THEN Null
      ELSE IF ~IsFinite(bbox.x) \/ ~IsFinite(bbox.y)
              \/ ~IsFinite(bbox.width) \/ ~IsFinite(bbox.height)
           THEN Null
           ELSE bbox

toLayoutNode(raw, id) ==
  [id |-> id, parentId |-> raw[id].parentId, name |-> raw[id].name, type |-> raw[id].type,
   visible |-> raw[id].visible, assetKey |-> raw[id].assetKey,
   bbox |-> normalizeBbox(raw[id]), fills |-> normalizeFills(raw[id].fills),
   radii |-> normalizeRadii(raw[id]), layoutMode |-> raw[id].layoutMode,
   paddingLeft |-> raw[id].paddingLeft, paddingRight |-> raw[id].paddingRight,
   paddingTop |-> raw[id].paddingTop, paddingBottom |-> raw[id].paddingBottom,
   itemSpacing |-> raw[id].itemSpacing, constraints |-> raw[id].constraints,
   layoutSizingHorizontal |-> raw[id].layoutSizingHorizontal,
   layoutSizingVertical |-> raw[id].layoutSizingVertical,
   primaryAxisSizingMode |-> raw[id].primaryAxisSizingMode,
   counterAxisSizingMode |-> raw[id].counterAxisSizingMode,
   characters |-> raw[id].characters, textStyle |-> raw[id].style,
   children |-> raw[id].children]

buildLayoutTree(raw) == [id \in 1..Len(raw) |-> toLayoutNode(raw, id)]

hasSolidFill(node) == Len(node.fills) > 0

hasRadii(node) ==
  node.radii # Null /\ \E i \in 1..4 : IsFinite(node.radii[i]) /\ node.radii[i] > 0

\* value ?? 0
OrZero(v) == IF v = NoNum THEN 0 ELSE v

hasAnyPadding(node) ==
  \/ Gt(OrZero(node.paddingLeft), 0) \/ Gt(OrZero(node.paddingRight), 0)
  \/ Gt(OrZero(node.paddingTop), 0) \/ Gt(OrZero(node.paddingBottom), 0)

isAutoLayout(node) == node.layoutMode # NoStr /\ node.layoutMode # "NONE"

RECURSIVE resizableFrom(_, _)
resizableFrom(tr, cursor) ==
  IF cursor = 0 THEN 0
  ELSE IF /\ tr[cursor].type = "FRAME"
          /\ isAutoLayout(tr[cursor])
          /\ hasAnyPadding(tr[cursor])
          /\ (hasSolidFill(tr[cursor]) \/ hasRadii(tr[cursor]))
       THEN cursor
       ELSE resizableFrom(tr, tr[cursor].parentId)

\* the id of the nearest resizable ancestor, 0 when there is none
findNearestResizableContainer(tr, id) == resizableFrom(tr, tr[id].parentId)

(***************************************************************************)
(* universalEngine: the Auto-Layout Box Resolver.                          *)
(***************************************************************************)
DefaultItemSpacingPx == 50

toRelativeBbox(node, fx, fy) ==
  IF node.bbox = Null THEN Null
  ELSE [x |-> Sub(node.bbox.x, fx), y |-> Sub(node.bbox.y, fy),
        width |-> node.bbox.width, height |-> node.bbox.height]

\* a relative box with its sides raised to 1 pixel at least
atLeastOnePx(rel) ==
  IF rel = Null THEN Null
  ELSE [x |-> rel.x, y |-> rel.y,
        width |-> MathMax(Px(1), rel.width), height |-> MathMax(Px(1), rel.height)]

getRawRelativeBox(node, fx, fy) == atLeastOnePx(toRelativeBbox(node, fx, fy))

\* a resolver for which no container is declared FIXED
neverFixedContainer(node) == FALSE

isFixedContainer(node) ==
  \/ node.layoutSizingHorizontal = "FIXED" \/ node.counterAxisSizingMode = "FIXED"
  \/ node.layoutSizingVertical = "FIXED" \/ node.primaryAxisSizingMode = "FIXED"

getSizingMode(node, axis) ==
  IF axis = "horizontal"
  THEN IF node.layoutSizingHorizontal \in {"FILL", "HUG", "FIXED"} THEN node.layoutSizingHorizontal
       ELSE IF node.counterAxisSizingMode = "FIXED" THEN "FIXED"
       ELSE IF node.constraints.horizontal = "LEFT_RIGHT" THEN "FILL"
       ELSE "HUG"
  ELSE IF node.layoutSizingVertical \in {"FILL", "HUG", "FIXED"} THEN node.layoutSizingVertical
       ELSE IF node.primaryAxisSizingMode = "FIXED" THEN "FIXED"
       ELSE IF node.constraints.vertical = "TOP_BOTTOM" THEN "FILL"
       ELSE "HUG"

\* Number.isFinite(node.itemSpacing) ? node.itemSpacing : 50
spacingOf(node) == IF IsFinite(node.itemSpacing) THEN node.itemSpacing ELSE Px(DefaultItemSpacingPx)

RECURSIVE SumSeq(_)
SumSeq(q) == IF Len(q) = 0 THEN 0 ELSE Add(SumSeq(SubSeq(q, 1, Len(q) - 1)), q[Len(q)])

\* reduce((max, v) => Math.max(max, v), 0)
RECURSIVE MaxSeq(_)
MaxSeq(q) == IF Len(q) = 0 THEN 0 ELSE MathMax(MaxSeq(SubSeq(q, 1, Len(q) - 1)), q[Len(q)])

\* Math.max(1, node.bbox?.width ?? 1) and the same of the height
fallbackSize(node) ==
  [width |-> MathMax(Px(1), IF node.bbox = Null THEN Px(1) ELSE node.bbox.width),
   height |-> MathMax(Px(1), IF node.bbox = Null THEN Px(1) ELSE node.bbox.height)]

\* the size of an auto-layout container around children of the given sizes
intrinsicAround(node, widths, heights, gaps) ==
  [width |-> MathMax(Px(1), Add(Add(OrZero(node.paddingLeft),
                                    IF node.layoutMode = "HORIZONTAL"
                                    THEN Add(SumSeq(widths), gaps) ELSE MaxSeq(widths)),
                                OrZero(node.paddingRight))),
   height |-> MathMax(Px(1), Add(Add(OrZero(node.paddingTop),
                                     IF node.layoutMode = "HORIZONTAL"
                                     THEN MaxSeq(heights) ELSE Add(SumSeq(heights), gaps)),
                                 OrZero(node.paddingBottom)))]

RECURSIVE computeIntrinsicSize(_, _)
computeIntrinsicSize(tr, id) ==
  IF ~isAutoLayout(tr[id]) \/ Len(tr[id].children) = 0 THEN fallbackSize(tr[id])
  ELSE IF isFixedContainer(tr[id]) THEN fallbackSize(tr[id])
  ELSE intrinsicAround(tr[id],
         [i \in 1..Len(tr[id].children) |-> computeIntrinsicSize(tr, tr[id].children[i]).width],
         [i \in 1..Len(tr[id].children) |-> computeIntrinsicSize(tr, tr[id].children[i]).height],
         Times(Len(tr[id].children) - 1, spacingOf(tr[id])))

\* mode === "HUG" ? intrinsic : raw, on the axis; the raw size is the intrinsic
\* one for a node without box
sizeFrom(axis, mode, raw, intrinsic) ==
  IF axis = "horizontal"
  THEN IF mode = "HUG" \/ raw = Null THEN intrinsic.width ELSE raw.width
  ELSE IF mode = "HUG" \/ raw = Null THEN intrinsic.height ELSE raw.height

\* the size on an axis of a child that is not FILL on it
sizeOnAxis(tr, child, axis, fx, fy) ==
  sizeFrom(axis, getSizingMode(tr[child], axis), getRawRelativeBox(tr[child], fx, fy),
           computeIntrinsicSize(tr, child))

\* the children laid out: node.children.filter((child) => child.visible !== false)
layoutChildren(node, tr) == SelectSeq(node.children, LAMBDA c : tr[c].visible)

mainAxisOf(node) == IF node.layoutMode = "HORIZONTAL" THEN "horizontal" ELSE "vertical"
crossAxisOf(node) == IF node.layoutMode = "HORIZONTAL" THEN "vertical" ELSE "horizontal"

innerWidth(node, nodeBox) ==
  MathMax(Px(1), Sub(Sub(nodeBox.width, OrZero(node.paddingLeft)), OrZero(node.paddingRight)))
innerHeight(node, nodeBox) ==
  MathMax(Px(1), Sub(Sub(nodeBox.height, OrZero(node.paddingTop)), OrZero(node.paddingBottom)))
innerSize(node, nodeBox, axis) ==
  IF axis = "horizontal" THEN innerWidth(node, nodeBox) ELSE innerHeight(node, nodeBox)

\* the children that are not FILL on the axis
fixedChildren(tr, kids, axis) == SelectSeq(kids, LAMBDA c : getSizingMode(tr[c], axis) # "FILL")

\* fixedMainTotal: the sum of Math.max(1, size) over the children that are not FILL
RECURSIVE fixedMainTotal(_, _, _, _, _)
fixedMainTotal(tr, fixedKids, axis, fx, fy) ==
  IF Len(fixedKids) = 0 THEN 0
  ELSE Add(fixedMainTotal(tr, SubSeq(fixedKids, 1, Len(fixedKids) - 1), axis, fx, fy),
           MathMax(Px(1), sizeOnAxis(tr, fixedKids[Len(fixedKids)], axis, fx, fy)))

\* a share of the leftover that forgets the spacing between the children
fillShareWithoutSpacing(fillCount, innerMain, fixedTotal, totalSpacing) ==
  IF fillCount > 0
  THEN MathMax(Px(1), FloorDiv(MathMax(0, Sub(innerMain, fixedTotal)), fillCount))
  ELSE 0

\* fillCount > 0 ? Math.max(1, Math.floor(leftoverMain / fillCount)) : 0
fillShare(fillCount, innerMain, fixedTotal, totalSpacing) ==
  IF fillCount > 0
  THEN MathMax(Px(1), FloorDiv(MathMax(0, Sub(Sub(innerMain, fixedTotal), totalSpacing)), fillCount))
  ELSE 0

\* the main-axis size of each FILL child of an auto-layout container
fillMainSize(tr, id, nodeBox, fx, fy) ==
  fillShare(Len(layoutChildren(tr[id], tr))
              - Len(fixedChildren(tr, layoutChildren(tr[id], tr), mainAxisOf(tr[id]))),
            innerSize(tr[id], nodeBox, mainAxisOf(tr[id])),
            fixedMainTotal(tr, fixedChildren(tr, layoutChildren(tr[id], tr), mainAxisOf(tr[id])),
                           mainAxisOf(tr[id]), fx, fy),
            Times(IF Len(layoutChildren(tr[id], tr)) > 0 THEN Len(layoutChildren(tr[id], tr)) - 1
                  ELSE 0, spacingOf(tr[id])))

\* a placement that starts at the container's outer edge, the padding forgotten
boxAtOuterEdge(node, nodeBox, cursor, childMain, childCross) ==
  IF mainAxisOf(node) = "horizontal"
  THEN [x |-> Add(nodeBox.x, cursor), y |-> nodeBox.y,
        width |-> MathMax(Px(1), childMain), height |-> MathMax(Px(1), childCross)]
  ELSE [x |-> nodeBox.x, y |-> Add(nodeBox.y, cursor),
        width |-> MathMax(Px(1), childCross), height |-> MathMax(Px(1), childMain)]

\* the box of a child of the sizes given, at the main-axis offset cursor
boxAt(node, nodeBox, cursor, childMain, childCross) ==
  IF mainAxisOf(node) = "horizontal"
  THEN [x |-> Add(Add(nodeBox.x, OrZero(node.paddingLeft)), cursor),
        y |-> Add(nodeBox.y, OrZero(node.paddingTop)),
        width |-> MathMax(Px(1), childMain), height |-> MathMax(Px(1), childCross)]
  ELSE [x |-> Add(nodeBox.x, OrZero(node.paddingLeft)),
        y |-> Add(Add(nodeBox.y, OrZero(node.paddingTop)), cursor),
        width |-> MathMax(Px(1), childCross), height |-> MathMax(Px(1), childMain)]

\* the box the container gives one child, at the main-axis offset cursor
childBox(tr, id, child, cursor, nodeBox, fx, fy) ==
  boxAt(tr[id], nodeBox, cursor,
        IF getSizingMode(tr[child], mainAxisOf(tr[id])) = "FILL"
        THEN fillMainSize(tr, id, nodeBox, fx, fy)
        ELSE sizeOnAxis(tr, child, mainAxisOf(tr[id]), fx, fy),
        IF getSizingMode(tr[child], crossAxisOf(tr[id])) = "FILL"
        THEN innerSize(tr[id], nodeBox, crossAxisOf(tr[id]))
        ELSE sizeOnAxis(tr, child, crossAxisOf(tr[id]), fx, fy))

\* assign(node, forcedBox): the (id, box) pairs set for the node's subtree
RECURSIVE assign(_, _, _, _, _)
RECURSIVE assignBox(_, _, _, _, _)
RECURSIVE placeFrom(_, _, _, _, _, _, _)
RECURSIVE placeChild(_, _, _, _, _, _, _, _)
assign(tr, id, forcedBox, fx, fy) ==
  assignBox(tr, id, IF forcedBox # Null THEN forcedBox ELSE getRawRelativeBox(tr[id], fx, fy),
            fx, fy)

\* the node's box set, and the boxes of its subtree
assignBox(tr, id, nodeBox, fx, fy) ==
  IF nodeBox = Null THEN {}
  ELSE {<<id, nodeBox>>} \cup
       IF ~isAutoLayout(tr[id]) \/ Len(tr[id].children) = 0
       THEN UNION {assign(tr, tr[id].children[i], Null, fx, fy) :
                     i \in 1..Len(tr[id].children)}
       ELSE placeFrom(tr, id, layoutChildren(tr[id], tr), 0, nodeBox, fx, fy)

\* the loop over the children of an auto-layout container
placeFrom(tr, id, kids, cursor, nodeBox, fx, fy) ==
  IF Len(kids) = 0 THEN {}
  ELSE placeChild(tr, id, kids, cursor, nodeBox, fx, fy,
                  childBox(tr, id, kids[1], cursor, nodeBox, fx, fy))

\* one turn of the loop: the child is assigned its box and the cursor moves on
placeChild(tr, id, kids, cursor, nodeBox, fx, fy, bx) ==
  assign(tr, kids[1], bx, fx, fy) \cup
  placeFrom(tr, id, Tail(kids),
            Add(cursor, Add(IF mainAxisOf(tr[id]) = "horizontal" THEN bx.width ELSE bx.height,
                            spacingOf(tr[id]))),
            nodeBox, fx, fy)

\* the map of computed boxes: Null where the map has no entry
boxesOf(n, pairs) ==
  [id \in 1..n |->
    IF \E p \in pairs : p[1] = id THEN (CHOOSE p \in pairs : p[1] = id)[2] ELSE Null]

\* a resolver that computes no box at all
noComputedLayoutBoxes(tr, fx, fy) == [id \in 1..Len(tr) |-> Null]

buildComputedLayoutBoxes(tr, fx, fy) == boxesOf(Len(tr), assign(tr, Root, Null, fx, fy))

(***************************************************************************)
(* universalEngine: the editable text renderer.                            *)
(***************************************************************************)
MarginSafePx == 150
AnchorEpsPx == 2
CenterEpsPx == 4
DefaultFontSizePx == 16

\* a raw text style; NoStr and NoNum stand for an absent property
Style(postScript, fontSize, letterSpacing, lineHeightPx) ==
  [fontPostScriptName |-> postScript, fontSize |-> fontSize,
   letterSpacing |-> letterSpacing, lineHeightPx |-> lineHeightPx]

\* node.textStyle ?? {}
styleOf(node) == IF node.textStyle = Null THEN Style(NoStr, NoNum, NoNum, NoNum) ELSE node.textStyle

\* FONT_BY_POSTSCRIPT, and the bold font for a name it does not hold
resolveFontPath(style) ==
  CASE style.fontPostScriptName \in {"GothamPro-Regular", "gothampro-regular", "gothampro"} -> "gothampro.ttf"
    [] style.fontPostScriptName \in {"GothamPro-Medium", "gothampro-medium"} -> "gothampro_medium.ttf"
    [] OTHER -> "gothampro_bold.ttf"

\* the font file at the size: loadFontCached, and the size every measure is taken at
loadFontCached(file, size) == SelectSeq(Fonts, LAMBDA fr : fr.file = file /\ fr.size = size)[1]

getFontMetricsPx(f) == [ascPx |-> f.ascPx, descPx |-> f.descPx]

\* the font size, line height and letter spacing measureTextBlock reads from a style
fontSizeOf(style) ==
  IF IsFinite(style.fontSize) /\ style.fontSize > 0 THEN style.fontSize ELSE Px(DefaultFontSizePx)
lineHeightOf(style) ==
  IF IsFinite(style.lineHeightPx) /\ style.lineHeightPx > 0 THEN style.lineHeightPx
  ELSE fontSizeOf(style)
letterSpacingOf(style) == IF style.letterSpacing = NoNum THEN 0 ELSE style.letterSpacing
fontOf(style) == loadFontCached(resolveFontPath(style), fontSizeOf(style))

\* measureTextBlock, once the text is wrapped
measuredLines(safeLines, f, letterSpacing, lineHeightPx) ==
  [lines |-> safeLines,
   maxLineWidthPx |->
     MaxSeq([i \in 1..Len(safeLines) |-> measureTextPx(safeLines[i], f, letterSpacing)]),
   textBlockHeightPx |-> Add(Times(Len(safeLines) - 1, lineHeightPx),
                             Add(getFontMetricsPx(f).ascPx, getFontMetricsPx(f).descPx)),
   lineHeightPx |-> lineHeightPx, metrics |-> getFontMetricsPx(f)]

\* measureTextBlock, once the font is loaded
measureWithFont(rawText, maxTextWidth, f, letterSpacing, lineHeightPx) ==
  measuredLines(wrapTextByWords(rawText, maxTextWidth, f, letterSpacing), f, letterSpacing,
                lineHeightPx)

measureTextBlock(node, rawText, maxTextWidth) ==
  measureWithFont(rawText, maxTextWidth, fontOf(styleOf(node)), letterSpacingOf(styleOf(node)),
                  lineHeightOf(styleOf(node)))

\* the number of leading lines whose stacked height fits maxHeight
RECURSIVE fittingLines(_, _, _, _, _)
fittingLines(n, maxLines, maxHeight, lineHeightPx, lineBox) ==
  IF maxLines >= n THEN maxLines
  ELSE LET h == Add(IF maxLines = 0 THEN 0
                    ELSE Sub(Times(maxLines, lineHeightPx), lineHeightPx), lineBox)
       IN  IF Le(h, maxHeight)
           THEN fittingLines(n, maxLines + 1, maxHeight, lineHeightPx, lineBox)
           ELSE maxLines

clampLinesByHeight(ls, maxHeight, lineHeightPx, ascPx, descPx) ==
  LET lineBox == Add(ascPx, descPx)
      maxLines == fittingLines(Len(ls), 0, maxHeight, lineHeightPx, lineBox)
  IN  IF Len(ls) = 0 THEN << <<>> >>
      ELSE IF Le(lineHeightPx, 0) \/ Le(lineBox, 0) \/ Le(maxHeight, 0) THEN << <<>> >>
      ELSE SubSeq(ls, 1, IF maxLines > 1 THEN maxLines ELSE 1)

\* String.prototype.trim and trimEnd over the white space of the model
RECURSIVE trimEnd(_)
trimEnd(t) ==
  IF Len(t) > 0 /\ t[Len(t)] \in Spaces \cup Breaks THEN trimEnd(SubSeq(t, 1, Len(t) - 1)) ELSE t
RECURSIVE trimStart(_)
trimStart(t) == IF Len(t) > 0 /\ t[1] \in Spaces \cup Breaks THEN trimStart(Tail(t)) ELSE t
trim(t) == trimEnd(trimStart(t))

endsWith(t, c) == Len(t) > 0 /\ t[Len(t)] = c

\* Object.prototype.hasOwnProperty.call(fields, name)
hasField(flds, name) == name \in DOMAIN flds

\* a value that is empty when the field map does not name the node
getEditableTextValueOrEmpty(node, flds) ==
  IF hasField(flds, node.name) THEN flds[node.name] ELSE <<>>

getEditableTextValue(node, flds) ==
  LET base == IF hasField(flds, node.name) THEN flds[node.name] ELSE node.characters
      t0 == trim(base)
      hadTrailingDot == endsWith(t0, ".")
      t == IF hadTrailingDot THEN trimEnd(SubSeq(t0, 1, Len(t0) - 1)) ELSE t0
      hasStrongEnding == endsWith(t, "!") \/ endsWith(t, "?")
      suffix == IF hadTrailingDot /\ ~hasStrongEnding THEN <<".">> ELSE <<>>
  IN  IF node.name \in {"text_quote", "Text_Quote"}
      THEN <<"d", "s", "l">> \o t \o <<"r">> \o suffix
      ELSE base

\* the anchor of a container: its horizontal constraint, or else the frame edge
\* its box is near
anchorOf(constraintHorizontal, rel, fw) ==
  IF constraintHorizontal = "CENTER" THEN "center"
  ELSE IF constraintHorizontal = "LEFT" THEN "left"
  ELSE IF constraintHorizontal = "RIGHT" THEN "right"
  ELSE IF Le(MathAbs(rel.x), Px(AnchorEpsPx)) THEN "left"
  ELSE IF Le(MathAbs(Sub(Add(rel.x, rel.width), fw)), Px(AnchorEpsPx)) THEN "right"
  ELSE IF Le(MathAbs(Sub(Add(rel.x, Half(rel.width)), Half(fw))), Px(CenterEpsPx)) THEN "center"
  ELSE "free"

\* the box of a layout box or a relative bbox, as the guard takes it
asGuardBox(rel) ==
  IF rel = Null THEN Null ELSE SafeBox(rel.x, rel.y, rel.width, rel.height)

\* a layer of text: the lines drawn for each of its text nodes
TextLayer(nodeId, b, content) ==
  [nodeId |-> nodeId, left |-> b.left, top |-> b.top, width |-> b.width, height |-> b.height,
   input |-> [width |-> b.width, height |-> b.height], content |-> content]

\* container?.constraints?.horizontal ?? node.constraints?.horizontal, and the
\* same of the vertical constraint
constraintHorizontalOf(hasContainer, target, node) ==
  IF hasContainer /\ target.constraints.horizontal # NoStr THEN target.constraints.horizontal
  ELSE node.constraints.horizontal
constraintVerticalOf(hasContainer, target, node) ==
  IF hasContainer /\ target.constraints.vertical # NoStr THEN target.constraints.vertical
  ELSE node.constraints.vertical

\* renderEditableText, lines 753 to 805: what the text is laid out in, read
\* from the guarded box of the target.  container is a node id, 0 for none.
textContext(nodes, tr, container, safeRel, fw) ==
  LET node == tr[nodes[1]]
      hasContainer == container # 0
      target == IF hasContainer THEN tr[container] ELSE node
      rel == [x |-> safeRel.left, y |-> safeRel.top, width |-> safeRel.width, height |-> safeRel.height]
      constraintHorizontal == constraintHorizontalOf(hasContainer, target, node)
      constraintVertical == constraintVerticalOf(hasContainer, target, node)
      anchor == IF hasContainer THEN anchorOf(constraintHorizontal, rel, fw) ELSE "free"
  IN  [node |-> node, target |-> target, hasContainer |-> hasContainer,
       paddingLeft |-> IF hasContainer THEN OrZero(target.paddingLeft) ELSE 0,
       paddingRight |-> IF hasContainer THEN OrZero(target.paddingRight) ELSE 0,
       paddingTop |-> IF hasContainer THEN OrZero(target.paddingTop) ELSE 0,
       paddingBottom |-> IF hasContainer THEN OrZero(target.paddingBottom) ELSE 0,
       origX |-> rel.x, origY |-> rel.y,
       origW |-> MathMax(Px(1), rel.width), origH |-> MathMax(Px(1), rel.height),
       constraintH |-> IF constraintHorizontal = NoStr THEN "LEFT" ELSE constraintHorizontal,
       constraintV |-> IF constraintVertical = NoStr THEN "TOP" ELSE constraintVertical,
       isFixed |-> hasContainer /\ isFixedContainer(target),
       anchor |-> anchor,
       maxWForAnchor |->
         IF hasContainer
         THEN IF anchor = "center" THEN MathMax(Px(1), Sub(fw, Px(MarginSafePx) * 2))
              ELSE MathMax(Px(1), Sub(fw, Px(MarginSafePx)))
         ELSE MathMax(Px(1), MathMax(Px(1), rel.width)),
       isAutoLayoutContainer |-> hasContainer /\ isAutoLayout(target),
       itemSpacing |-> IF hasContainer THEN spacingOf(target) ELSE 0]

\* the width a text node wraps at inside an inner width
resolveWrapWidthForNode(c, boxes, textNode, innerW) ==
  IF /\ c.isAutoLayoutContainer /\ c.target.layoutMode = "HORIZONTAL"
     /\ boxes[textNode] # Null /\ IsFinite(MathMax(Px(1), boxes[textNode].width))
  THEN MathMax(Px(1), MathMin(innerW, MathMax(Px(1), boxes[textNode].width)))
  ELSE MathMax(Px(1), innerW)

\* one measuring pass: each text node wrapped at its width inside innerW
measurePass(nodes, tr, flds, boxes, c, innerW) ==
  [i \in 1..Len(nodes) |->
    measureTextBlock(tr[nodes[i]], getEditableTextValue(tr[nodes[i]], flds),
                     resolveWrapWidthForNode(c, boxes, nodes[i], innerW))]

\* tentativePillW and blockW: the width of the block around the measured lines
pillWidth(c, measured) ==
  IF c.hasContainer /\ ~c.isFixed
  THEN clamp(Add(Add(MaxSeq([i \in 1..Len(measured) |-> measured[i].maxLineWidthPx]),
                     c.paddingLeft), c.paddingRight),
             Px(1), c.maxWForAnchor)
  ELSE c.origW

\* the width inside the paddings of a block of the width given
innerOf(c, pillW) ==
  IF c.hasContainer THEN MathMax(Px(1), Sub(Sub(pillW, c.paddingLeft), c.paddingRight))
  ELSE MathMax(Px(1), c.origW)

\* blockH before the vertical constraint is applied
blockHeight(c, measured) ==
  IF c.hasContainer /\ ~c.isFixed
  THEN Add(Add(c.paddingTop,
               IF c.isAutoLayoutContainer
               THEN Add(SumSeq([i \in 1..Len(measured) |-> measured[i].textBlockHeightPx]),
                        Times(Len(measured) - 1, c.itemSpacing))
               ELSE measured[1].textBlockHeightPx),
           c.paddingBottom)
  ELSE c.origH

\* newX before the clamp to the frame
placedX(c, fw, blockW) ==
  IF c.hasContainer /\ ~c.isFixed
  THEN CASE c.anchor = "left" -> 0
         [] c.anchor = "right" -> IF Lt(Sub(fw, blockW), Px(MarginSafePx))
                                  THEN Px(MarginSafePx) ELSE Sub(fw, blockW)
         [] c.anchor = "center" -> RoundHalfDiff(fw, blockW)
         [] OTHER -> c.origX
  ELSE IF c.hasContainer THEN c.origX
  ELSE IF c.constraintH = "RIGHT" THEN Sub(Add(c.origX, c.origW), blockW)
  ELSE IF c.constraintH = "CENTER" THEN Sub(Add(c.origX, Half(c.origW)), Half(blockW))
  ELSE c.origX

\* newY before the clamp to the frame
placedY(c, blockH) ==
  IF c.hasContainer /\ c.isFixed THEN c.origY
  ELSE IF c.constraintV = "BOTTOM" THEN Sub(Add(c.origY, c.origH), blockH)
  ELSE IF c.constraintV = "CENTER" THEN Sub(Add(c.origY, Half(c.origH)), Half(blockH))
  ELSE c.origY

\* the TOP_BOTTOM branch of the vertical constraint: the block keeps the
\* original height and the first text node's lines are cut to it
stretchesV(c) ==
  /\ ~(c.hasContainer /\ c.isFixed)
  /\ c.constraintV = "TOP_BOTTOM"

\* the lines drawn for each text node
drawnLines(c, measured) ==
  [i \in 1..Len(measured) |->
    IF stretchesV(c) /\ i = 1
    THEN clampLinesByHeight(measured[1].lines,
                            MathMax(Px(1), Sub(Sub(c.origH, c.paddingTop), c.paddingBottom)),
                            measured[1].lineHeightPx,
                            measured[1].metrics.ascPx, measured[1].metrics.descPx)
    ELSE measured[i].lines]

\* renderEditableText, lines 1024 to 1079: the layer of the guarded layer box
textLayerOutcome(c, used, content, layerBox, safeLayerBox) ==
  IF safeLayerBox = Null
  THEN [layer |-> Null, used |-> used, bad |-> <<badBox(<<"text-layer", c.node.id>>, layerBox)>>]
  ELSE [layer |-> TextLayer(c.node.id, safeLayerBox, content), bad |-> <<>>, used |-> used]

textLayerAt(fw, fh, c, used, content, layerBox) ==
  textLayerOutcome(c, used, content, layerBox, sanitizeBox(layerBox, fw, fh))

\* renderEditableText, lines 905 to 909: the block of the sizes given, clamped
\* into the frame
textBlock(nodes, tr, flds, fw, fh, c, measured, blockW, blockH) ==
  textLayerAt(fw, fh, c,
              {tr[nodes[i]].name : i \in {j \in 1..Len(nodes) : hasField(flds, tr[nodes[j]].name)}},
              drawnLines(c, measured),
              SafeBox(toInt(clamp(placedX(c, fw, blockW), 0,
                                  MathMax(0, Sub(fw, MathMax(Px(1), blockW))))),
                      toInt(clamp(placedY(c, blockH), 0,
                                  MathMax(0, Sub(fh, MathMax(Px(1), IF stretchesV(c) THEN c.origH
                                                                    ELSE blockH))))),
                      ensureLayerGeometry(MathMax(Px(1), blockW), Px(1)),
                      ensureLayerGeometry(MathMax(Px(1), IF stretchesV(c) THEN c.origH ELSE blockH),
                                          Px(1))))

\* renderEditableText, lines 835 to 903: pass B measures inside the pill of pass A
textPassB(nodes, tr, flds, fw, fh, c, measuredB) ==
  textBlock(nodes, tr, flds, fw, fh, c, measuredB, pillWidth(c, measuredB),
            blockHeight(c, measuredB))

\* a renderer of one pass: the block of pass A is drawn as measured
textOnePass(nodes, tr, flds, fw, fh, boxes, c, measuredA) ==
  textPassB(nodes, tr, flds, fw, fh, c, measuredA)

\* renderEditableText, lines 819 to 833: pass A measures inside the widest pill
textPassA(nodes, tr, flds, fw, fh, boxes, c, measuredA) ==
  textPassB(nodes, tr, flds, fw, fh, c,
            measurePass(nodes, tr, flds, boxes, c,
                        innerOf(c, MathMax(Px(1), pillWidth(c, measuredA)))))

textInContext(nodes, tr, flds, fw, fh, boxes, c) ==
  textPassA(nodes, tr, flds, fw, fh, boxes, c,
            measurePass(nodes, tr, flds, boxes, c,
                        innerOf(c, IF c.isFixed THEN c.origW ELSE c.maxWForAnchor)))

\* renderEditableText, lines 745 to 753: the guard on the box of the target
textInBox(nodes, tr, flds, fw, fh, boxes, container, targetId, rawBox, safeRel) ==
  IF safeRel = Null
  THEN [layer |-> Null, used |-> {}, bad |-> <<badBox(<<"text-container", targetId>>, rawBox)>>]
  ELSE textInContext(nodes, tr, flds, fw, fh, boxes,
                     textContext(nodes, tr, container, safeRel, fw))

textOfTarget(nodes, tr, flds, fw, fh, boxes, container, targetId, rawBox) ==
  textInBox(nodes, tr, flds, fw, fh, boxes, container, targetId, rawBox,
            sanitizeBox(rawBox, fw, fh))

textInContainer(nodes, tr, flds, fx, fy, fw, fh, computedContainerBox, boxes, container) ==
  textOfTarget(nodes, tr, flds, fw, fh, boxes, container,
               IF container # 0 THEN container ELSE nodes[1],
               asGuardBox(IF computedContainerBox # Null THEN computedContainerBox
                          ELSE toRelativeBbox(IF container # 0 THEN tr[container] ELSE tr[nodes[1]],
                                              fx, fy)))

\* renderEditableText: the layer (or Null), the entries pushed to badBoxes and
\* the names added to fieldsUsed.  forcedContainer is a node id, 0 for none.
renderEditableText(nodes, tr, flds, fx, fy, fw, fh, forcedContainer, computedContainerBox, boxes) ==
  IF Len(nodes) = 0 THEN [layer |-> Null, bad |-> <<>>, used |-> {}]
  ELSE IF tr[nodes[1]].bbox = Null THEN [layer |-> Null, bad |-> <<>>, used |-> {}]
  ELSE textInContainer(nodes, tr, flds, fx, fy, fw, fh, computedContainerBox, boxes,
                       IF forcedContainer # 0 THEN forcedContainer
                       ELSE findNearestResizableContainer(tr, nodes[1]))

(***************************************************************************)
(* universalEngine: object storage, photos, solid rectangles and the walk  *)
(* of the node tree.  An object key is a tuple of strings, the empty tuple *)
(* the empty string.                                                       *)
(***************************************************************************)
TemplateId == "T"

\* the error s3Client.send rejects with, Null when the object is returned
S3Error(name, status) == [name |-> name, message |-> "", httpStatusCode |-> status]

getObject(store, key) ==
  LET status == IF key \in DOMAIN store THEN store[key] ELSE "missing"
  IN  CASE status = "ok" -> Null
        [] status = "missing" -> S3Error("NoSuchKey", 404)
        [] OTHER -> S3Error("AccessDenied", 403)

getUploadBuffer(store, objectKey) == getObject(store, objectKey)

\* the error of the fetch (Null when the buffer is returned): a cached key is
\* not fetched again
getSnapshotAssetBuffer(store, cache, assetKey) ==
  IF assetKey \in cache THEN Null ELSE getObject(store, assetKey)

\* a test that knows a missing object by the name NotFound only
isNamedNotFound(err) == err # Null /\ err.name = "NotFound"

isObjectNotFoundError(err) ==
  err # Null /\ (err.httpStatusCode = 404 \/ err.name \in {"NoSuchKey", "NotFound"})

ATOMIC_IMAGE_TYPES ==
  {"VECTOR", "INSTANCE", "GROUP", "BOOLEAN_OPERATION", "STAR", "LINE", "ELLIPSE", "POLYGON"}

\* a renderer that knows no manual assets
noManualAssetType(name) == NoStr

getManualAssetType(name) ==
  CASE name \in {"sticker", "Sticker"} -> "sticker"
    [] name \in {"marks", "Marks"} -> "marks"
    [] OTHER -> NoStr

manualAssetCandidates(manualType) ==
  <<<<"assets", "manual-assets", TemplateId, manualType>>, <<"assets", "manual-assets", TemplateId>>>>

\* what rendering one node gives: the layers it pushes, the entries it pushes
\* to badBoxes, the field names and skip reasons it records, the keys it adds
\* to the cache, the error it throws (Null: none), and whether renderNodeTree
\* goes on to the node's children
Outcome(ls, bad, used, skipped, fetched, err, descend) ==
  [layers |-> ls, bad |-> bad, used |-> used, skipped |-> skipped, fetched |-> fetched,
   err |-> err, descend |-> descend]

\* the layers and badBoxes entries of a box drawn for a node, once the guard
\* has answered
guardedBox(kind, id, rawBox, ok) ==
  IF ok = Null THEN [layers |-> <<>>, bad |-> <<badBox(<<kind, id>>, rawBox)>>]
  ELSE [layers |-> <<Layer(id, ok)>>, bad |-> <<>>]

guardedAs(kind, id, rawBox, fw, fh) == guardedBox(kind, id, rawBox, sanitizeBox(rawBox, fw, fh))

\* the layers and badBoxes entries of a guarded box drawn for a node
guarded(kind, node, rel, fw, fh) == guardedAs(kind, node.id, asGuardBox(rel), fw, fh)

\* fields[node.name], the empty key when the field is absent
photoKey(node, flds) == IF hasField(flds, node.name) THEN flds[node.name] ELSE <<>>

\* renderEditablePhoto, once the upload is fetched: err is the error of the fetch
photoFetched(node, g, err) ==
  IF err # Null THEN Outcome(<<>>, <<>>, {node.name}, <<>>, {}, err, FALSE)
  ELSE Outcome(g.layers, <<>>, {node.name}, <<>>, {}, Null, FALSE)

\* renderEditablePhoto, once the guard has answered for the photo's box
photoInBox(node, store, objectKey, g) ==
  IF g.layers = <<>>
  THEN Outcome(<<>>, g.bad, {node.name}, <<<<"invalid-photo-box", node.id>>>>, {}, Null, FALSE)
  ELSE photoFetched(node, g, getUploadBuffer(store, objectKey))

renderEditablePhoto(node, flds, fx, fy, fw, fh, store, computedBox) ==
  IF photoKey(node, flds) = <<>> \/ node.bbox = Null
  THEN Outcome(<<>>, <<>>, {}, <<>>, {}, Null, FALSE)
  ELSE photoInBox(node, store, photoKey(node, flds),
                  guarded("photo", node,
                          IF computedBox # Null THEN computedBox ELSE toRelativeBbox(node, fx, fy),
                          fw, fh))

\* a guarded box is drawn only for a node with a fill
filledOnly(node, g) ==
  IF g.layers # <<>> /\ Len(node.fills) = 0 THEN [layers |-> <<>>, bad |-> <<>>] ELSE g

\* createSolidRectLayer with forceBbox; a node without fill gives no layer
createSolidRectLayer(node, fx, fy, fw, fh, forceBbox) ==
  filledOnly(node, guarded("solid", node, IF forceBbox # Null THEN forceBbox
                                          ELSE toRelativeBbox(node, fx, fy), fw, fh))

\* the first candidate key whose fetch does not fail with not-found, 0 if none
RECURSIVE firstCandidate(_, _, _, _)
firstCandidate(store, cache, candidates, i) ==
  IF i > Len(candidates) THEN 0
  ELSE IF isObjectNotFoundError(getSnapshotAssetBuffer(store, cache, candidates[i]))
       THEN firstCandidate(store, cache, candidates, i + 1)
       ELSE i

\* the outcome of an asset's fetch: err is the error of the fetch
assetFetched(g, assetKey, err) ==
  IF err # Null THEN Outcome(<<>>, <<>>, {}, <<>>, {}, err, FALSE)
  ELSE Outcome(g.layers, <<>>, {}, <<>>, {assetKey}, Null, FALSE)

\* the manual asset under the i-th candidate key, none when i is 0
manualCandidate(g, store, cache, candidates, i) ==
  IF i = 0 THEN Outcome(<<>>, <<>>, {}, <<>>, {}, Null, FALSE)
  ELSE assetFetched(g, candidates[i], getSnapshotAssetBuffer(store, cache, candidates[i]))

manualInBox(node, store, cache, g) ==
  IF g.layers = <<>> THEN Outcome(<<>>, g.bad, {}, <<>>, {}, Null, FALSE)
  ELSE manualCandidate(g, store, cache, manualAssetCandidates(getManualAssetType(node.name)),
                       firstCandidate(store, cache,
                                      manualAssetCandidates(getManualAssetType(node.name)), 1))

renderManualAsset(node, rel, fw, fh, store, cache) ==
  manualInBox(node, store, cache, guarded("manual-asset", node, rel, fw, fh))

\* context.assetsMap[node.id] || node.assetKey, the empty key when neither
assetKeyOf(node, amap) ==
  IF node.id \in DOMAIN amap /\ amap[node.id] # <<>> THEN amap[node.id]
  ELSE IF node.assetKey # NoStr THEN <<node.assetKey>> ELSE <<>>

\* the snapshot asset, once fetched: a not-found error is caught
snapshotFetched(g, assetKey, err) ==
  IF isObjectNotFoundError(err) THEN Outcome(<<>>, <<>>, {}, <<>>, {}, Null, FALSE)
  ELSE assetFetched(g, assetKey, err)

snapshotInBox(node, store, cache, amap, g) ==
  IF g.layers = <<>> THEN Outcome(<<>>, g.bad, {}, <<>>, {}, Null, FALSE)
  ELSE snapshotFetched(g, assetKeyOf(node, amap),
                       getSnapshotAssetBuffer(store, cache, assetKeyOf(node, amap)))

renderSnapshotAsset(node, rel, fw, fh, store, cache, amap) ==
  snapshotInBox(node, store, cache, amap, guarded("asset", node, rel, fw, fh))

\* collectNodes: the nodes of the subtree in the order of the walk
RECURSIVE collectNodes(_, _)
RECURSIVE collectAll(_, _)
collectNodes(tr, id) == <<id>> \o collectAll(tr, tr[id].children)
collectAll(tr, ids) ==
  IF Len(ids) = 0 THEN <<>> ELSE collectNodes(tr, ids[1]) \o collectAll(tr, Tail(ids))

\* containerTextMap.get(id): the visible editable text nodes whose nearest
\* resizable container is the node, in the order of the walk
containerTextMap(tr, id) ==
  SelectSeq(collectNodes(tr, Root),
            LAMBDA t : /\ tr[t].visible
                       /\ getEditableKind(tr[t].name) = "text"
                       /\ findNearestResizableContainer(tr, t) = id)

\* a render context in which no text node counts as handled by a container
noHandledTextNodeIds(tr) == {}

handledTextNodeIds(tr) ==
  {t \in 1..Len(tr) : /\ tr[t].visible
                      /\ getEditableKind(tr[t].name) = "text"
                      /\ findNearestResizableContainer(tr, t) # 0}

hasAssetsMapEntry(amap, id) == id \in DOMAIN amap /\ amap[id] # <<>>

\* the outcome of a text render r, and of a solid rectangle s
textOutcome(r, descend) ==
  Outcome(IF r.layer = Null THEN <<>> ELSE <<r.layer>>, r.bad, r.used, <<>>, {}, Null, descend)
solidOutcome(s, descend) == Outcome(s.layers, s.bad, {}, <<>>, {}, Null, descend)

\* renderNodeTree on one visible node, its children apart, once the node's
\* computed box and the text nodes mapped to it are looked up
renderNodeAt(tr, id, flds, fx, fy, fw, fh, boxes, store, cache, amap, nodeComputedRel, mappedTextNodes) ==
  LET node == tr[id]
      editableKind == getEditableKind(tr[id].name)
  IN  IF editableKind = "image"
      THEN renderEditablePhoto(node, flds, fx, fy, fw, fh, store, nodeComputedRel)
      ELSE IF editableKind = "text" /\ id \in handledTextNodeIds(tr)
      THEN Outcome(<<>>, <<>>, {}, <<>>, {}, Null, FALSE)
      ELSE IF editableKind = "text" \/ Len(mappedTextNodes) > 0
      THEN textOutcome(renderEditableText(IF editableKind = "text" THEN <<id>> ELSE mappedTextNodes,
                                          tr, flds, fx, fy, fw, fh,
                                          IF editableKind = "text" THEN 0 ELSE id,
                                          nodeComputedRel, boxes),
                       editableKind # "text")
      ELSE IF node.bbox # Null /\ getManualAssetType(node.name) # NoStr /\ ~hasAssetsMapEntry(amap, id)
      THEN renderManualAsset(node, nodeComputedRel, fw, fh, store, cache)
      ELSE IF node.type \in {"FRAME", "RECTANGLE"} /\ hasSolidFill(node)
      THEN solidOutcome(createSolidRectLayer(node, fx, fy, fw, fh, nodeComputedRel), TRUE)
      ELSE IF assetKeyOf(node, amap) # <<>> /\ node.bbox # Null
      THEN renderSnapshotAsset(node, nodeComputedRel, fw, fh, store, cache, amap)
      ELSE IF node.type \in ATOMIC_IMAGE_TYPES /\ hasSolidFill(node)
      THEN solidOutcome(createSolidRectLayer(node, fx, fy, fw, fh, nodeComputedRel), FALSE)
      ELSE IF Len(node.children) = 0 /\ node.bbox # Null /\ hasSolidFill(node)
      THEN solidOutcome(createSolidRectLayer(node, fx, fy, fw, fh, nodeComputedRel), TRUE)
      ELSE Outcome(<<>>, <<>>, {}, <<>>, {}, Null, TRUE)

\* renderNodeTree on one visible node, its children apart
renderNode(tr, id, flds, fx, fy, fw, fh, boxes, store, cache, amap) ==
  renderNodeAt(tr, id, flds, fx, fy, fw, fh, boxes, store, cache, amap,
               IF boxes[id] # Null THEN boxes[id] ELSE getRawRelativeBox(tr[id], fx, fy),
               containerTextMap(tr, id))

\* the children not drawn with the node as its mapped text nodes
unmapped(children, mapped) ==
  SelectSeq(children, LAMBDA c : \A i \in 1..Len(mapped) : mapped[i] # c)

\* a walk that takes the children from the last to the first
RECURSIVE Reversed(_)
Reversed(q) == IF Len(q) = 0 THEN <<>> ELSE Append(Reversed(Tail(q)), q[1])
childrenFromLast(tr, id) == Reversed(unmapped(tr[id].children, containerTextMap(tr, id)))

\* the children renderNodeTree recurses into: not the text nodes drawn with the node
childrenToRender(tr, id) == unmapped(tr[id].children, containerTextMap(tr, id))

\* one turn of the loop over allLayers
compositeWith(n, rest) ==
  [items |-> (IF n.item = Null THEN <<>> ELSE <<n.item>>) \o rest.items,
   bad |-> n.bad \o rest.bad]

\* the loop over allLayers: the composite list and the entries pushed to badBoxes
RECURSIVE compositeLayers(_, _, _)
compositeLayers(ls, fw, fh) ==
  IF Len(ls) = 0 THEN [items |-> <<>>, bad |-> <<>>]
  ELSE compositeWith(normalizeCompositeItem(fw, fh, ls[1]), compositeLayers(Tail(ls), fw, fh))

FallbackFrameSidePx == 2000

\* the frame side: ensureLayerGeometry of a finite positive side, or else 2000
frameSide(raw) ==
  IF IsFinite(raw) /\ raw > 0 THEN ensureLayerGeometry(raw, Px(1)) ELSE Px(FallbackFrameSidePx)

RenderError(message) == [name |-> "Error", message |-> message, httpStatusCode |-> NoNum]

(***************************************************************************)
(* The variables of the entry points a specification does not run.         *)
(***************************************************************************)
IdleWrap ==
  /\ text = <<>> /\ maxWidthPx = Px(1) /\ font = 1 /\ letterSpacingPx = 0
  /\ lines = <<>> /\ relines = <<>>
IdleGuard == box = Null /\ safe = Null /\ item = Null
IdleTrunc == lineLimit = 0 /\ ellipsis = <<>> /\ widthCtx = FALSE /\ truncated = <<>>
IdleFont == fontCache = <<>> /\ promises = <<>> /\ callers = <<>>
IdleFigma ==
  /\ options = Null /\ attempt = 0 /\ sent = 0 /\ responses = <<>> /\ delay = 0 /\ fetchResult = Null
IdleSync ==
  /\ syncRunning = <<>> /\ requests = <<>> /\ clock = 0 /\ bucket = Null /\ writeLog = {}
IdleServices == IdleFont /\ IdleTrunc /\ IdleFigma /\ IdleSync
IdleInput == frameNode = <<>> /\ assetsMap = <<>> /\ fields = <<>> /\ storage = <<>>
IdleRender ==
  /\ tree = <<>> /\ frameX = 0 /\ frameY = 0 /\ computedBoxes = <<>>
  /\ todo = <<>> /\ visited = {} /\ layers = <<>> /\ badBoxes = <<>>
  /\ fieldsUsed = {} /\ skippedPhotoReason = <<>> /\ assetsCache = {}
  /\ composite = <<>> /\ result = Null /\ error = Null

(***************************************************************************)
(* renderUniversalTemplate, in three steps: the set-up before the walk,    *)
(* renderNodeTree on the next node of the walk, and the compositing of the *)
(* layers into the returned image.  A thrown error ends the render.        *)
(***************************************************************************)
BeginRender ==
  /\ pc = "start"
  /\ tree' = buildLayoutTree(frameNode)
  /\ LET frame == tree'[Root]
     IN  IF frame.bbox = Null
         THEN /\ pc' = "failed"
              /\ error' = RenderError("Frame bounding box is missing")
              /\ UNCHANGED <<frameX, frameY, frameW, frameH, computedBoxes, todo>>
         ELSE IF ~IsFinite(frame.bbox.x) \/ ~IsFinite(frame.bbox.y)
         THEN /\ pc' = "failed"
              /\ error' = RenderError("frameX is not finite")
              /\ UNCHANGED <<frameX, frameY, frameW, frameH, computedBoxes, todo>>
         ELSE /\ pc' = "walk"
              /\ frameX' = frame.bbox.x
              /\ frameY' = frame.bbox.y
              /\ frameW' = frameSide(frame.bbox.width)
              /\ frameH' = frameSide(frame.bbox.height)
              /\ computedBoxes' = buildComputedLayoutBoxes(tree', frame.bbox.x, frame.bbox.y)
              /\ todo' = <<Root>>
              /\ UNCHANGED error
  /\ UNCHANGED <<serviceVars, wrapVars, guardVars, inputVars, visited, layers, fieldsUsed,
                 skippedPhotoReason, assetsCache, badBoxes, composite, result>>

RenderNode ==
  /\ pc = "walk"
  /\ todo # <<>>
  /\ IF ~tree[Head(todo)].visible
     THEN /\ todo' = Tail(todo)
          /\ UNCHANGED <<pc, visited, layers, badBoxes, fieldsUsed, skippedPhotoReason,
                         assetsCache, error>>
     ELSE \E out \in {renderNode(tree, Head(todo), fields, frameX, frameY, frameW, frameH,
                                 computedBoxes, storage, assetsCache, assetsMap)} :
            /\ visited' = visited \cup {Head(todo)}
            /\ badBoxes' = badBoxes \o out.bad
            /\ fieldsUsed' = fieldsUsed \cup out.used
            /\ skippedPhotoReason' = skippedPhotoReason \o out.skipped
            /\ assetsCache' = assetsCache \cup out.fetched
            /\ IF out.err # Null
               THEN /\ pc' = "failed"
                    /\ error' = out.err
                    /\ UNCHANGED <<todo, layers>>
               ELSE /\ layers' = layers \o out.layers
                    /\ todo' = (IF out.descend THEN childrenToRender(tree, Head(todo)) ELSE <<>>)
                               \o Tail(todo)
                    /\ UNCHANGED <<pc, error>>
  /\ UNCHANGED <<serviceVars, wrapVars, guardVars, inputVars, contextVars, frameW, frameH, composite, result>>

FinishRender ==
  /\ pc = "walk"
  /\ todo = <<>>
  /\ \E c \in {compositeLayers(layers, frameW, frameH)} :
       /\ composite' = c.items
       /\ IF sanitizeBox(SafeBox(0, 0, frameW, frameH), frameW, frameH) = Null
          THEN /\ badBoxes' = (badBoxes \o c.bad)
                              \o <<badBox(<<"extract", 0>>, SafeBox(0, 0, frameW, frameH))>>
               /\ pc' = "failed"
               /\ error' = RenderError("Computed frame extract box invalid")
               /\ UNCHANGED result
          ELSE /\ badBoxes' = badBoxes \o c.bad
               /\ pc' = "done"
               /\ result' = [width |-> frameW, height |-> frameH, composite |-> c.items]
               /\ UNCHANGED error
  /\ UNCHANGED <<serviceVars, wrapVars, guardVars, inputVars, contextVars, frameW, frameH, walkVars>>

NextRender == BeginRender \/ RenderNode \/ FinishRender

\* before the render: nothing set up, nothing walked, nothing returned
StartRender ==
  /\ pc = "start"
  /\ IdleWrap /\ IdleGuard /\ IdleRender /\ IdleServices
  /\ frameW = Px(1) /\ frameH = Px(1)

(***************************************************************************)
(* SpecGuard: one box handed to the Geometry Guard, and the accepted box   *)
(* handed, as a layer, to the compositor's normalizeCompositeItem.         *)
(***************************************************************************)
FrameSides == {Px(1), Px(800), Px(4000)}

\* the largest side the guard accepts in a frame of side f
MaxSide(f) == MathMin(f * 4, Px(MaxLayerSidePx))

Positions(f) == {NaN, NegInf, PosInf, -f * 2 - 1, -f * 2, -Px(10) - 1, 0, f - Px(1), f,
                 f * 2, f * 2 + 1, f * 2 + Px(1)}
Sides(f) == {NaN, PosInf, 0, 1, Px(1), Px(10) + 1, MaxSide(f), MaxSide(f) + 1, Px(MaxLayerSidePx) + 1}

InitGuard ==
  /\ pc = "start"
  /\ IdleWrap /\ IdleInput /\ IdleRender /\ IdleServices
  /\ frameW \in FrameSides
  /\ frameH \in {Px(800), Px(4000)}
  /\ \E l \in Positions(frameW), t \in {NaN, -frameH * 2 - 1, 0, frameH * 2 + 1},
        w \in Sides(frameW), h \in {NegInf, 1, Px(1), Px(50), MaxSide(frameH), MaxSide(frameH) + 1} :
        box = SafeBox(l, t, w, h)
  /\ safe = Null
  /\ item = Null

Sanitize ==
  /\ pc = "start"
  /\ safe' = sanitizeBox(box, frameW, frameH)
  /\ badBoxes' = IF safe' = Null THEN Append(badBoxes, badBox(<<"box", 0>>, box)) ELSE badBoxes
  /\ pc' = "sanitized"
  /\ UNCHANGED <<serviceVars, box, item, wrapVars, inputVars, contextVars, frameW, frameH, walkVars, outVars>>

NormalizeComposite ==
  /\ pc = "sanitized"
  /\ safe # Null
  /\ LET n == normalizeCompositeItem(frameW, frameH, Layer(0, safe))
     IN  /\ item' = n.item
         /\ badBoxes' = badBoxes \o n.bad
  /\ pc' = "normalized"
  /\ UNCHANGED <<serviceVars, box, safe, wrapVars, inputVars, contextVars, frameW, frameH, walkVars, outVars>>

NextGuard == Sanitize \/ NormalizeComposite

SpecGuard == InitGuard /\ [][NextGuard]_vars

\* the conditions the Geometry Guard is specified to reject a box on
NonFinite(b) == \E v \in {b.left, b.top, b.width, b.height} : ~IsFinite(v)
SideOutside(v, f) == ~(Ge(v, Px(1)) /\ Le(v, MaxSide(f)))
PositionOutside(v, f) == ~(Ge(v, -f * 2) /\ Le(v, f * 2))
AreaAbove(b) == IsFinite(b.width) /\ IsFinite(b.height) /\ ~areaOk(b.width, b.height)
SpecifiedBad(b) ==
  \/ NonFinite(b)
  \/ SideOutside(b.width, frameW) \/ SideOutside(b.height, frameH)
  \/ PositionOutside(b.left, frameW) \/ PositionOutside(b.top, frameH)
  \/ AreaAbove(b)

\* C2: the guard returns no box exactly for the boxes with a non-finite
\* coordinate, a side outside [1, min(4 x frame, 12000)], a position outside
\* [-2 x frame, +2 x frame] or an area above 200,000,000 px^2.
C2_GuardRejectsExactly ==
  pc # "start" => (safe = Null <=> SpecifiedBad(box))

(***************************************************************************)
(* SpecLayout: the render of a frame that holds one auto-layout container  *)
(* of three rectangles, the first of them an auto-layout frame itself.     *)
(***************************************************************************)
SizingModes == {"FIXED", "FILL", "HUG"}

\* a rectangle with a solid fill and the sizing mode on both axes
SizedRect(parentId, name, bbox, sizing, children) ==
  [RawNode(parentId, name, "RECTANGLE", bbox, children) EXCEPT
     !.fills = <<SolidPaint>>,
     !.layoutSizingHorizontal = sizing, !.layoutSizingVertical = sizing]

\* the frame of the layout scenario: node 2 is the container, nodes 3, 4, 5 its
\* children, node 6 the child of node 3, a line of height 0 in the narrowest container
LayoutFrame(mode, pad, gap, inner, m3, m4, m5, vis5) ==
  LET side == inner + 2 * OrZero(pad)
      frame == [RawNode(0, "frame", "FRAME", BBox(Px(100), Px(50), Px(800), Px(600)), <<2>>)
                  EXCEPT !.fills = <<SolidPaint>>]
      row == [RawNode(1, "row", "FRAME",
                      IF mode = "HORIZONTAL" THEN BBox(Px(120), Px(80), side, Px(60))
                      ELSE BBox(Px(120), Px(80), Px(120), side), <<3, 4, 5>>)
                EXCEPT !.layoutMode = mode, !.itemSpacing = gap,
                       !.paddingLeft = pad, !.paddingRight = pad,
                       !.paddingTop = pad, !.paddingBottom = pad]
      first == [SizedRect(2, "card", BBox(Px(130), Px(90), Px(100), Px(100)), m3, <<6>>)
                  EXCEPT !.type = "FRAME", !.layoutMode = "HORIZONTAL",
                         !.paddingLeft = Px(5), !.paddingRight = Px(5),
                         !.paddingTop = Px(5), !.paddingBottom = Px(5)]
      second == IF m4 = "LEFT_RIGHT"
                THEN [SizedRect(2, "bar", BBox(Px(240), Px(90), Px(77), Px(77)), NoStr, <<>>)
                        EXCEPT !.constraints = [horizontal |-> "LEFT_RIGHT", vertical |-> "TOP_BOTTOM"]]
                ELSE SizedRect(2, "bar", BBox(Px(240), Px(90), Px(77), Px(77)), m4, <<>>)
      third == [SizedRect(2, "dot", BBox(Px(330), Px(90), Px(50), Px(50)), m5, <<>>)
                  EXCEPT !.visible = vis5]
      inside == SizedRect(3, "chip", BBox(Px(135), Px(95), Px(60), IF inner = Px(120) THEN 0 ELSE Px(60)),
                          "FIXED", <<>>)
  IN  <<frame, row, first, second, third, inside>>

InitLayout ==
  /\ StartRender
  /\ assetsMap = <<>> /\ fields = <<>> /\ storage = <<>>
  /\ \E mode \in {"HORIZONTAL", "VERTICAL"}, pad \in {NoNum, Px(10)}, gap \in {NoNum, 0, Px(10)},
        inner \in {Px(400), Px(401), Px(120)}, m3 \in SizingModes,
        m4 \in SizingModes \cup {"LEFT_RIGHT"}, m5 \in SizingModes, vis5 \in BOOLEAN :
        frameNode = LayoutFrame(mode, pad, gap, inner, m3, m4, m5, vis5)

SpecLayout == InitLayout /\ [][NextRender]_vars

\* the auto-layout container of the layout scenario and what it lays out
Row == Root + 1
RowAxis == mainAxisOf(tree[Row])
RowKids == {c \in 1..Len(tree) : tree[c].parentId = Row /\ tree[c].visible}
RowFillKids == {c \in RowKids : getSizingMode(tree[c], RowAxis) = "FILL"}
MainOf(b) == IF RowAxis = "horizontal" THEN b.width ELSE b.height
RowInnerMain ==
  IF RowAxis = "horizontal"
  THEN MainOf(computedBoxes[Row]) - OrZero(tree[Row].paddingLeft) - OrZero(tree[Row].paddingRight)
  ELSE MainOf(computedBoxes[Row]) - OrZero(tree[Row].paddingTop) - OrZero(tree[Row].paddingBottom)
RECURSIVE SumMain(_)
SumMain(S) ==
  IF S = {} THEN 0
  ELSE LET c == CHOOSE x \in S : TRUE IN MainOf(computedBoxes[c]) + SumMain(S \ {c})
RowGap == IF tree[Row].itemSpacing = NoNum THEN Px(DefaultItemSpacingPx) ELSE tree[Row].itemSpacing
\* the inner main size less the sizes of the children that are not FILL and
\* less the spacing between the visible children
RowLeftover ==
  RowInnerMain - SumMain(RowKids \ RowFillKids) - RowGap * (Cardinality(RowKids) - 1)
LaidOut == pc \in {"walk", "done"}

\* C5 (as the code has it): the FILL children of an auto-layout container all
\* get the same main-axis size: the leftover (inner size less the sizes of the
\* visible FIXED and HUG children less the spacing between the visible
\* children, 50 when no spacing is given) divided by their number, rounded
\* down to a whole pixel, and never less than 1 pixel.  In the row
\* [FIXED 100, FILL, FIXED 50] of inner width 400 and spacing 10 it is 230.
C5_FillSharesLeftover ==
  LaidOut =>
    \A c \in RowFillKids :
      MainOf(computedBoxes[c]) =
        IF RowLeftover >= Px(1) * Cardinality(RowFillKids)
        THEN Px(RowLeftover \div (Px(1) * Cardinality(RowFillKids)))
        ELSE Px(1)

\* the row [FIXED 100, FILL, FIXED 50], inner width 400, spacing 10
IsExampleRow ==
  /\ RowAxis = "horizontal" /\ RowInnerMain = Px(400) /\ RowGap = Px(10)
  /\ RowKids = {3, 4, 5} /\ RowFillKids = {4}
  /\ computedBoxes[3].width = Px(100) /\ computedBoxes[5].width = Px(50)

C5_Witness ==
  /\ pc = "done" /\ IsExampleRow
  /\ computedBoxes[4].width = Px(230)
  /\ \E l \in 1..Len(composite) : composite[l].nodeId = 4 /\ composite[l].width = Px(230)

\* C5 as stated: each FILL child's size is exactly the leftover divided by the
\* number of FILL children.
C5_FillIsExactQuotient ==
  LaidOut =>
    \A c \in RowFillKids : MainOf(computedBoxes[c]) * Cardinality(RowFillKids) = RowLeftover

\* the parts of the stated size of a container: the padding on an axis, the
\* spacing between n children, the sizes of the children on the axis in a
\* row along or across it
PaddingOn(n, axis) ==
  IF axis = "horizontal" THEN Add(OrZero(tree[n].paddingLeft), OrZero(tree[n].paddingRight))
  ELSE Add(OrZero(tree[n].paddingTop), OrZero(tree[n].paddingBottom))
IsContainer(n) == tree[n].layoutMode \in {"HORIZONTAL", "VERTICAL"} /\ Len(tree[n].children) > 0
DeclaredFixed(n) ==
  "FIXED" \in {tree[n].layoutSizingHorizontal, tree[n].layoutSizingVertical,
               tree[n].primaryAxisSizingMode, tree[n].counterAxisSizingMode}
IsMainAxis(n, axis) == (tree[n].layoutMode = "HORIZONTAL") = (axis = "horizontal")
BboxSide(n, axis) ==
  IF tree[n].bbox = Null THEN NoNum
  ELSE IF axis = "horizontal" THEN tree[n].bbox.width ELSE tree[n].bbox.height
Content(n, axis, sizes, gap) ==
  IF IsMainAxis(n, axis) THEN Add(SumSeq(sizes), Times(Len(sizes) - 1, gap)) ELSE MaxSeq(sizes)

\* the intrinsic size on an axis as the claim states it
RECURSIVE StatedSize(_, _)
StatedSize(n, axis) ==
  IF ~IsContainer(n) \/ DeclaredFixed(n) THEN BboxSide(n, axis)
  ELSE Add(PaddingOn(n, axis),
           Content(n, axis, [i \in 1..Len(tree[n].children) |-> StatedSize(tree[n].children[i], axis)],
                   OrZero(tree[n].itemSpacing)))

\* C18, as the claim states it: the intrinsic size of a leaf and of a FIXED
\* container is its own bbox, that of another auto-layout container is
\* padding + sum of the children's sizes + itemSpacing x (n - 1) on the main
\* axis and padding + maximum of the children's sizes on the cross axis.
C18_IntrinsicSizeAsStated ==
  \A n \in DOMAIN tree :
    /\ computeIntrinsicSize(tree, n).width = StatedSize(n, "horizontal")
    /\ computeIntrinsicSize(tree, n).height = StatedSize(n, "vertical")

\* the same size with each own side raised to 1 pixel at least, a side of 1
\* pixel for a node without bbox, and a spacing of 50 for a container whose
\* itemSpacing is absent
FlooredSide(v) == IF v = NoNum THEN Px(1) ELSE MathMax(Px(1), v)
SpacingOr50(n) == IF IsFinite(tree[n].itemSpacing) THEN tree[n].itemSpacing ELSE Px(50)
RECURSIVE FlooredSize(_, _)
FlooredSize(n, axis) ==
  IF ~IsContainer(n) \/ DeclaredFixed(n) THEN FlooredSide(BboxSide(n, axis))
  ELSE MathMax(Px(1),
         Add(PaddingOn(n, axis),
             Content(n, axis, [i \in 1..Len(tree[n].children) |-> FlooredSize(tree[n].children[i], axis)],
                     SpacingOr50(n))))

HugKids(axis) == {c \in 1..Len(tree) : tree[c].parentId = Root + 1 /\ tree[c].visible
                                        /\ getSizingMode(tree[c], axis) = "HUG"}

\* C18, amended: the intrinsic size is the stated one with every side at
\* least 1 pixel and a spacing of 50 where itemSpacing is absent; it is the
\* size the resolver gives a HUG child of an auto-layout container.
C18_IntrinsicSizeFloored ==
  /\ \A n \in DOMAIN tree :
       /\ computeIntrinsicSize(tree, n).width = FlooredSize(n, "horizontal")
       /\ computeIntrinsicSize(tree, n).height = FlooredSize(n, "vertical")
  /\ pc \in {"walk", "done"} =>
       /\ \A c \in HugKids("horizontal") : computedBoxes[c].width = FlooredSize(c, "horizontal")
       /\ \A c \in HugKids("vertical") : computedBoxes[c].height = FlooredSize(c, "vertical")

\* a HUG container around a line of height 0 is 5 + 1 + 5 pixels high and
\* 5 + 60 + 5 wide, in a container without itemSpacing
C18_Witness ==
  /\ pc = "done"
  /\ tree[Root + 1].itemSpacing = NoNum
  /\ tree[Root + 5].bbox.height = 0
  /\ Root + 2 \in HugKids("vertical")
  /\ computedBoxes[Root + 2].height = Px(11) /\ computedBoxes[Root + 2].width = Px(70)

\* the visible children of a container, and the start and the size of a box
\* on the container's main axis and its start on the cross axis
PlacedKids(n) == SelectSeq(tree[n].children, LAMBDA c : tree[c].visible)
MainStart(n, b) == IF tree[n].layoutMode = "HORIZONTAL" THEN b.x ELSE b.y
CrossStart(n, b) == IF tree[n].layoutMode = "HORIZONTAL" THEN b.y ELSE b.x
MainSize(n, b) == IF tree[n].layoutMode = "HORIZONTAL" THEN b.width ELSE b.height
LeadingPadding(n) ==
  IF tree[n].layoutMode = "HORIZONTAL" THEN OrZero(tree[n].paddingLeft) ELSE OrZero(tree[n].paddingTop)
CrossPadding(n) ==
  IF tree[n].layoutMode = "HORIZONTAL" THEN OrZero(tree[n].paddingTop) ELSE OrZero(tree[n].paddingLeft)
KidBox(n, i) == computedBoxes[PlacedKids(n)[i]]

TextFrameW == Px(800)
PillPadX == Px(20)
PillPadY == Px(10)

TextValues ==
  { <<>>, <<"b">>, <<"a", "b">>, <<"a", "a", "s", "a", "b">>, <<"a", "n", "b", "s", "b">>,
    <<"a", "s", "s", "b">>,
    <<"a", "a", "a", "s", "a", "a", "a", "s", "a", "a", "a">>,
    <<"a", "a", "a", "s", "a", "n", "a", "a", "s", "a", "b">> }

TextStyles == {Style(NoStr, Px(20), NoNum, NoNum), Style("GothamPro-Medium", Px(20), NoNum, NoNum)}

TextNodeRaw(parentId, name, bbox, style, ch, cv) ==
  [RawNode(parentId, name, "TEXT", bbox, <<>>) EXCEPT
     !.characters = <<"a", "b">>, !.style = style, !.fills = <<SolidPaint>>,
     !.constraints = [horizontal |-> ch, vertical |-> cv]]

TextFrameRaw(children) ==
  [RawNode(0, "frame", "FRAME", BBox(0, 0, TextFrameW, Px(600)), children)
     EXCEPT !.fills = <<SolidPaint>>]

LabelFrame(x, w, style, ch, cv) ==
  <<TextFrameRaw(<<2>>), TextNodeRaw(1, "text_title", BBox(x, Px(100), w, Px(40)), style, ch, cv)>>

PillFrame(x, w, style, ch, cv, mode, sizing, two) ==
  LET pill == [RawNode(1, "pill", "FRAME", BBox(x, Px(100), w, Px(60)),
                       IF two THEN <<3, 4>> ELSE <<3>>)
                 EXCEPT !.fills = <<SolidPaint>>, !.layoutMode = mode,
                        !.paddingLeft = PillPadX, !.paddingRight = PillPadX,
                        !.paddingTop = PillPadY, !.paddingBottom = PillPadY,
                        !.layoutSizingHorizontal = sizing,
                        !.constraints = [horizontal |-> ch, vertical |-> cv]]
      first == TextNodeRaw(2, "text_title", BBox(x + PillPadX, Px(110), w - 2 * PillPadX, Px(40)),
                           style, NoStr, NoStr)
      second == TextNodeRaw(2, "Text body", BBox(x + PillPadX, Px(150), w - 2 * PillPadX, Px(40)),
                            style, NoStr, NoStr)
  IN  IF two THEN <<TextFrameRaw(<<2>>), pill, first, second>>
      ELSE <<TextFrameRaw(<<2>>), pill, first>>

HorizontalConstraints == {NoStr, "LEFT", "RIGHT", "CENTER", "LEFT_RIGHT"}

InitText ==
  /\ StartRender
  /\ assetsMap = <<>> /\ storage = <<>>
  /\ \/ fields = <<>>
     \/ \E v \in TextValues : fields = [name \in {"text_title"} |-> v]
  /\ \E style \in TextStyles, ch \in HorizontalConstraints :
       \/ \E cv \in {NoStr, "BOTTOM", "CENTER", "TOP_BOTTOM"},
             b \in {<<Px(100), Px(50)>>, <<Px(100) + 1, Px(120) + 1>>, <<-Px(10), Px(120)>>,
                    <<Px(700), Px(120)>>, <<Px(680), Px(120)>>, <<Px(100), Px(900)>>} :
             frameNode = LabelFrame(b[1], b[2], style, ch, cv)
       \/ \E cv \in {NoStr, "TOP_BOTTOM"},
             b \in {<<Px(100), Px(200)>>, <<Px(600), Px(200)>>, <<Px(560), Px(200)>>},
             mode \in {"HORIZONTAL", "VERTICAL"}, sizing \in {"HUG", "FIXED"}, two \in BOOLEAN :
             frameNode = PillFrame(b[1], b[2], style, ch, cv, mode, sizing, two)

SpecText == InitText /\ [][NextRender]_vars

\* the editable element of the text scenario (the label, or the pill around
\* the text), the first text node of the pill, and the layers of text
Element == Root + 1
PillTextNode == Root + 2
TextLayers == SelectSeq(layers, LAMBDA l : tree[l.nodeId].type = "TEXT")

AnchoredRight == tree[Element].constraints.horizontal = "RIGHT"
OriginalInsideFrame ==
  /\ Ge(computedBoxes[Element].x, 0)
  /\ Le(computedBoxes[Element].x + computedBoxes[Element].width, frameW)
\* the right edge of the original box, on the pixel grid the guard rounds to
OriginalRight == MathRound(computedBoxes[Element].x) + MathRound(computedBoxes[Element].width)

\* C6: an editable text element anchored RIGHT, whose original box lies in the
\* frame, is drawn with its right edge at the right edge of its original box,
\* whatever the text.
C6_RightEdgeKept ==
  (pc = "done" /\ AnchoredRight /\ OriginalInsideFrame) =>
    \A i \in 1..Len(TextLayers) : TextLayers[i].left + TextLayers[i].width = OriginalRight

\* a label anchored RIGHT is drawn with its right edge where it was
C6_LabelWitness ==
  /\ pc = "done" /\ AnchoredRight /\ OriginalInsideFrame
  /\ tree[Element].type = "TEXT"
  /\ Len(TextLayers) = 1
  /\ TextLayers[1].left + TextLayers[1].width = OriginalRight

\* a pill of the scenario whose width hugs its single text
IsHugPill ==
  /\ tree[Element].type = "FRAME"
  /\ ~isFixedContainer(tree[Element])
  /\ tree[Element].paddingLeft = Px(20) /\ tree[Element].paddingRight = Px(20)
  /\ Len(tree[Element].children) = 1
PillText == getEditableTextValue(tree[PillTextNode], fields)
PillFont == fontOf(styleOf(tree[PillTextNode]))
PillLetterSpacing == letterSpacingOf(styleOf(tree[PillTextNode]))
PillContext ==
  textContext(<<PillTextNode>>, tree, Element,
              sanitizeBox(asGuardBox(computedBoxes[Element]), frameW, frameH), frameW)
\* the span the text is allowed: the width it wraps at inside the widest pill
AllowedSpan ==
  resolveWrapWidthForNode(PillContext, computedBoxes, PillTextNode,
                          innerOf(PillContext, PillContext.maxWForAnchor))
FitsOnOneLine ==
  /\ PillText # <<>>
  /\ wrapTextByWords(PillText, AllowedSpan, PillFont, PillLetterSpacing) = <<PillText>>
MeasuredWidth == measureTextPx(PillText, PillFont, PillLetterSpacing)

\* C7: a pill that hugs its text, with 20 pixels of padding on the left and on
\* the right, whose text fits on one line in the span it is allowed, is drawn
\* as wide as the measured width of the text plus 40 pixels, within 1 pixel.
C7_HugPillWidth ==
  (pc = "done" /\ IsHugPill /\ FitsOnOneLine) =>
    /\ Len(TextLayers) = 1
    /\ Abs(TextLayers[1].width - (MeasuredWidth + Px(40))) <= Px(1)

\* a hug pill drawn as wide as its one-line text plus the paddings
C7_FitWitness ==
  /\ pc = "done" /\ IsHugPill /\ FitsOnOneLine
  /\ Len(TextLayers) = 1
  /\ Len(TextLayers[1].content[1]) = 1
  /\ Abs(TextLayers[1].width - (MeasuredWidth + Px(40))) <= Px(1)

\* the visible editable text nodes, and those the field map does not name
EditableTextNodes ==
  {n \in DOMAIN tree : tree[n].visible /\ getEditableKind(tree[n].name) = "text"}
UnnamedTextNodes == {n \in EditableTextNodes : tree[n].name \notin DOMAIN fields}

\* the lines drawn for a text node: a lone text node is the first block of its
\* layer, a text node of a container the block of its rank among the
\* container's text nodes
DrawnLinesOf(n) ==
  TextLayers[1].content[IF tree[Element].type = "TEXT" THEN 1 ELSE n - Element]

RECURSIVE Concat(_)
Concat(ls) == IF Len(ls) = 0 THEN <<>> ELSE ls[1] \o Concat(Tail(ls))

IsPrefixOf(p, t) == Len(p) <= Len(t) /\ SubSeq(t, 1, Len(p)) = p

IsFixedPill ==
  /\ tree[Element].type = "FRAME"
  /\ tree[Element].layoutSizingHorizontal = "FIXED"
PillInnerHeight ==
  MathMax(Px(1), computedBoxes[Element].height - tree[Element].paddingTop
                 - tree[Element].paddingBottom)
PillWrapped ==
  measureTextBlock(tree[PillTextNode], PillText,
                   resolveWrapWidthForNode(PillContext, computedBoxes, PillTextNode,
                                           innerOf(PillContext, PillContext.origW)))
StackedHeight(k) ==
  (k - 1) * PillWrapped.lineHeightPx + PillWrapped.metrics.ascPx + PillWrapped.metrics.descPx
FixedPillKeepsSize ==
  /\ Len(TextLayers) = 1
  /\ TextLayers[1].width = MathRound(computedBoxes[Element].width)
  /\ TextLayers[1].height = MathRound(computedBoxes[Element].height)
  /\ IsPrefixOf(TextLayers[1].content[1], PillWrapped.lines)

\* C22: the block drawn for an editable container declared FIXED keeps the
\* container's original width and height, and the lines drawn for its text
\* are a prefix of the wrapped lines whose stacked height fits the height
\* inside the container's paddings (one line is drawn in any case).
C22_FixedPillClipsLines ==
  (pc = "done" /\ IsFixedPill) =>
    /\ FixedPillKeepsSize
    /\ \/ Len(TextLayers[1].content[1]) <= 1
       \/ Le(StackedHeight(Len(TextLayers[1].content[1])), PillInnerHeight)

\* a FIXED pill drawn at its original size with every wrapped line of its
\* text, although the lines stacked are higher than the pill's inner height
C22_OverflowDrawn ==
  /\ pc = "done" /\ IsFixedPill
  /\ FixedPillKeepsSize
  /\ TextLayers[1].content[1] = PillWrapped.lines
  /\ Len(PillWrapped.lines) > 1
  /\ Gt(StackedHeight(Len(PillWrapped.lines)), PillInnerHeight)

\* the element's horizontal constraint is LEFT_RIGHT; the first text node of
\* the element, and its text wrapped at the original width of the element,
\* inside the paddings when the element is a container
StretchedH == tree[Element].constraints.horizontal = "LEFT_RIGHT"
FirstTextNode == IF tree[Element].type = "TEXT" THEN Element ELSE PillTextNode
WrappedAtOriginalWidth ==
  wrapTextByWords(getEditableTextValue(tree[FirstTextNode], fields),
                  MathMax(Px(1), computedBoxes[Element].width
                                 - OrZero(tree[Element].paddingLeft)
                                 - OrZero(tree[Element].paddingRight)),
                  fontOf(styleOf(tree[FirstTextNode])),
                  letterSpacingOf(styleOf(tree[FirstTextNode])))
KeepsOriginalSpan ==
  /\ Len(TextLayers) = 1
  /\ TextLayers[1].left = MathRound(computedBoxes[Element].x)
  /\ TextLayers[1].width = MathRound(computedBoxes[Element].width)
  /\ IsPrefixOf(TextLayers[1].content[1], WrappedAtOriginalWidth)

\* C23: an editable text element whose horizontal constraint is LEFT_RIGHT,
\* and whose original box lies in the frame, is drawn at its original x with
\* its original width whatever the text, and the lines drawn are the text
\* wrapped at that original width.
C23_StretchedKeepsSpan ==
  (pc = "done" /\ StretchedH /\ OriginalInsideFrame) => KeepsOriginalSpan

\* a container that hugs its text, constrained LEFT_RIGHT, drawn narrower
\* than its original box
C23_StretchedPillResized ==
  /\ pc = "done" /\ StretchedH /\ OriginalInsideFrame
  /\ tree[Element].type = "FRAME"
  /\ tree[Element].layoutSizingHorizontal = "HUG"
  /\ Len(TextLayers) = 1
  /\ TextLayers[1].width < MathRound(computedBoxes[Element].width)

\* C24: the block of an editable text element is drawn inside the frame,
\* for every anchor, constraint and text value: 0 <= x <= frameWidth -
\* blockWidth and 0 <= y <= frameHeight - blockHeight.
C24_BlockInsideFrame ==
  pc = "done" =>
    \A i \in 1..Len(TextLayers) :
      /\ 0 <= TextLayers[i].left /\ TextLayers[i].left <= frameW - TextLayers[i].width
      /\ 0 <= TextLayers[i].top /\ TextLayers[i].top <= frameH - TextLayers[i].height

\* C24, amended: the block is never drawn left of or above the frame, and its
\* right and lower edges are at most one pixel (of rounding) past the frame's
\* unless the block itself is larger than the frame: such a block is drawn
\* at 0 and overhangs the frame by what it is larger.
C24_BlockClampedIntoFrame ==
  pc = "done" =>
    \A i \in 1..Len(TextLayers) :
      /\ 0 <= TextLayers[i].left /\ 0 <= TextLayers[i].top
      /\ TextLayers[i].left + TextLayers[i].width <= MathMax(frameW, TextLayers[i].width) + Px(1)
      /\ TextLayers[i].top + TextLayers[i].height <= MathMax(frameH, TextLayers[i].height) + Px(1)
      /\ TextLayers[i].width >= frameW => TextLayers[i].left = 0
      /\ TextLayers[i].height >= frameH => TextLayers[i].top = 0

\* a label whose original box crosses the right edge of the frame is drawn
\* moved left, with its right edge on the frame's
C24_Witness ==
  /\ pc = "done"
  /\ tree[Element].type = "TEXT"
  /\ computedBoxes[Element].x + computedBoxes[Element].width > frameW
  /\ Len(TextLayers) = 1
  /\ TextLayers[1].left < computedBoxes[Element].x
  /\ TextLayers[1].left + TextLayers[1].width = frameW

\* a block wider than the frame is drawn at 0 and overhangs the frame
C24_WiderThanFrame ==
  /\ pc = "done"
  /\ Len(TextLayers) = 1
  /\ TextLayers[1].width > frameW
  /\ TextLayers[1].left = 0

\* a block no wider than the frame ends one pixel past the frame's right edge
C24_RoundedPastEdge ==
  /\ pc = "done"
  /\ Len(TextLayers) = 1
  /\ TextLayers[1].width <= frameW
  /\ TextLayers[1].left + TextLayers[1].width = frameW + Px(1)

\* the text nodes of the element, the context renderEditableText works in,
\* and the measuring passes: pass A, and the pass that follows a pass
ElementTexts ==
  IF tree[Element].type = "TEXT" THEN <<Element>> ELSE containerTextMap(tree, Element)
ElementContext ==
  textContext(ElementTexts, tree, IF tree[Element].type = "TEXT" THEN 0 ELSE Element,
              sanitizeBox(asGuardBox(computedBoxes[Element]), frameW, frameH), frameW)
PassA(c) ==
  measurePass(ElementTexts, tree, fields, computedBoxes, c,
              innerOf(c, IF c.isFixed THEN c.origW ELSE c.maxWForAnchor))
PassAfter(c, measured) ==
  measurePass(ElementTexts, tree, fields, computedBoxes, c,
              innerOf(c, MathMax(Px(1), pillWidth(c, measured))))
LinesOf(measured) == [i \in 1..Len(measured) |-> measured[i].lines]
SamePass(c, passB, passC) ==
  /\ LinesOf(passC) = LinesOf(passB)
  /\ pillWidth(c, passC) = pillWidth(c, passB)
NotWider(c, passA, passB) == Le(pillWidth(c, passB), pillWidth(c, passA))
FixedPointFrom(c, passA, passB) ==
  /\ SamePass(c, passB, PassAfter(c, passB))
  /\ NotWider(c, passA, passB)
FixedPointAt(c, passA) == FixedPointFrom(c, passA, PassAfter(c, passA))

DrawnIs(c, measured) ==
  /\ TextLayers[1].width = ensureLayerGeometry(MathMax(Px(1), pillWidth(c, measured)), Px(1))
  /\ Len(TextLayers[1].content) = Len(measured)
  /\ \A i \in 1..Len(measured) : IsPrefixOf(TextLayers[1].content[i], measured[i].lines)
SecondPassFrom(c, passA, passB) ==
  /\ DrawnIs(c, passB)
  /\ NotWider(c, passA, passB)
  /\ LinesOf(passB) = LinesOf(passA) => SamePass(c, passB, PassAfter(c, passB))
SecondPassAt(c, passA) == SecondPassFrom(c, passA, PassAfter(c, passA))
RewrappedTwiceFrom(c, passA, passB) ==
  /\ DrawnIs(c, passB)
  /\ LinesOf(passB) # LinesOf(passA)
  /\ LinesOf(PassAfter(c, passB)) # LinesOf(passB)
RewrappedTwiceAt(c, passA) == RewrappedTwiceFrom(c, passA, PassAfter(c, passA))

Background == Root + 1
Photo == Root + 2
Logo == Root + 3
Sticker == Root + 4
AutoRow == Root + 5
Cell == Root + 6
Closing == Root + 7

UploadKey == <<"uploads", "p">>
LogoKey == <<"assets", "logo">>

FrameBoxes == {BBox(0, 0, Px(800), Px(600)), Null, BBox(0, 0, PosInf, Px(600))}
CellKinds == {"rect", "group", "text", "asset", "hug"}
ObjectStates == {"ok", "missing", "denied"}

FilledRect(parentId, name, bbox) ==
  [RawNode(parentId, name, "RECTANGLE", bbox, <<>>) EXCEPT !.fills = <<SolidPaint>>]

CellRaw(kind) ==
  LET bbox == BBox(Px(410), Px(310), Px(100), Px(80))
      sized(n) == [n EXCEPT !.layoutSizingHorizontal = "FILL"]
  IN  CASE kind = "rect" -> sized(FilledRect(AutoRow, "bg", bbox))
        [] kind = "hug" -> [RawNode(AutoRow, "pill", "FRAME", bbox, <<Closing + 1>>)
                              EXCEPT !.fills = <<SolidPaint>>, !.layoutMode = "HORIZONTAL",
                                     !.paddingLeft = PosInf, !.paddingRight = NegInf,
                                     !.layoutSizingHorizontal = "HUG"]
        [] kind = "group" -> sized(RawNode(AutoRow, "pill", "GROUP", bbox, <<>>))
        [] kind = "text" -> sized(TextNodeRaw(AutoRow, "text_title", bbox,
                                              Style(NoStr, Px(20), NoNum, NoNum), NoStr, NoStr))
        [] OTHER -> sized([RawNode(AutoRow, "logo", "VECTOR", bbox, <<>>) EXCEPT !.assetKey = "logo"])

RenderFrame(frameBox, padL, padR, kind, closingW) ==
  << [RawNode(0, "frame", "FRAME", frameBox,
              <<Background, Photo, Logo, Sticker, AutoRow, Closing>>) EXCEPT !.fills = <<SolidPaint>>],
     FilledRect(Root, "bg", BBox(0, 0, Px(800), Px(600))),
     RawNode(Root, "photo_main", "RECTANGLE", BBox(Px(50), Px(50), Px(200), Px(200)), <<>>),
     RawNode(Root, "logo", "VECTOR", BBox(Px(300), Px(50), Px(100), Px(40)), <<>>),
     RawNode(Root, "sticker", "RECTANGLE", BBox(Px(500), Px(50), Px(80), Px(80)), <<>>),
     [RawNode(Root, "pill", "FRAME", BBox(Px(400), Px(300), Px(300), Px(100)), <<Cell>>)
        EXCEPT !.layoutMode = "HORIZONTAL", !.paddingLeft = padL, !.paddingRight = padR],
     CellRaw(kind),
     FilledRect(Root, "bg", BBox(Px(700), Px(500), closingW, Px(50))) >>
  \o (IF kind = "hug" THEN <<FilledRect(Cell, "bg", BBox(Px(420), Px(320), Px(40), Px(40)))>>
      ELSE <<>>)

\* the stored objects: a key outside the domain is an object that is not there
Stored(upload, logo, sticker, generic) ==
  LET status == [k \in {UploadKey, LogoKey, <<"logo">>} \cup
                       {manualAssetCandidates("sticker")[i] : i \in 1..2} |->
                   CASE k = UploadKey -> upload
                     [] k \in {LogoKey, <<"logo">>} -> logo
                     [] k = manualAssetCandidates("sticker")[1] -> sticker
                     [] OTHER -> generic]
  IN  [k \in {j \in DOMAIN status : status[j] # "missing"} |-> status[k]]

InitRender ==
  /\ StartRender
  /\ \E frameBox \in FrameBoxes, padL \in {Px(10), PosInf}, padR \in {Px(10), NegInf},
        kind \in CellKinds, closingW \in {Px(50), 0} :
        frameNode = RenderFrame(frameBox, padL, padR, kind, closingW)
  /\ assetsMap = [id \in {Logo} |-> LogoKey]
  /\ \/ fields = <<>>
     \/ fields = [name \in {"photo_main"} |-> <<>>]
     \/ fields = [name \in {"photo_main"} |-> UploadKey]
  /\ \E upload \in ObjectStates, logo \in ObjectStates, sticker \in ObjectStates,
        generic \in {"ok", "missing"} :
        storage = Stored(upload, logo, sticker, generic)

SpecRender == InitRender /\ [][NextRender]_vars

\* the nodes whose computed box has width 0 or NaN
BadWidthNodes ==
  {id \in DOMAIN computedBoxes :
     /\ computedBoxes[id] # Null
     /\ (IsNaN(computedBoxes[id].width) \/ computedBoxes[id].width = 0)}

LayersOf(id) == SelectSeq(layers, LAMBDA l : l.nodeId = id)
CompositedOf(id) == SelectSeq(composite, LAMBDA l : l.nodeId = id)
RejectionsOf(id) == SelectSeq(badBoxes, LAMBDA b : b.label[2] = id)
FailedAt(id) == pc = "failed" /\ todo # <<>> /\ Head(todo) = id

\* a node that has something of its own to draw: a solid fill, an asset or
\* an editable text
HasContent(id) ==
  \/ hasSolidFill(tree[id])
  \/ assetKeyOf(tree[id], assetsMap) # <<>>
  \/ getEditableKind(tree[id].name) = "text"

UploadMissing ==
  /\ hasField(fields, "photo_main") /\ fields["photo_main"] # <<>>
  /\ fields["photo_main"] \notin DOMAIN storage

\* C8: when the upload named by the photo field is missing from storage, the
\* render does not throw at the photo node, and no layer is drawn for it.
C8_MissingPhotoSkipped ==
  UploadMissing => (~FailedAt(Photo) /\ Len(LayersOf(Photo)) = 0)

LogoMissing ==
  tree # <<>> /\ assetKeyOf(tree[Logo], assetsMap) \notin DOMAIN storage
StickerMissing ==
  \A i \in 1..2 : manualAssetCandidates("sticker")[i] \notin DOMAIN storage
AssetMissing(id) ==
  \/ id = Logo /\ LogoMissing
  \/ id = Sticker /\ StickerMissing

FrameBoxAbsent == frameNode # <<>> /\ frameNode[Root].absoluteBoundingBox = Null

\* C10: when the frame node has no bounding box, the render stops with the
\* error "Frame bounding box is missing" before any node is walked: no layer
\* is produced, nothing is composited and no image is returned.
C10_NoBoxAborts ==
  FrameBoxAbsent =>
    /\ pc \in {"start", "failed"}
    /\ pc = "failed" => error = RenderError("Frame bounding box is missing")
    /\ visited = {} /\ layers = <<>> /\ composite = <<>> /\ result = Null

C10_Witness ==
  /\ FrameBoxAbsent /\ pc = "failed"
  /\ error = RenderError("Frame bounding box is missing")
  /\ layers = <<>> /\ composite = <<>> /\ result = Null

(***************************************************************************)
(* SpecOrder: one render of a frame that holds a background rectangle, a   *)
(* padded auto-layout frame around an icon, a text node and a group with a *)
(* second text node, and a closing node of any kind: any of three types,   *)
(* named as a plain node, a photo, a text or a sticker, with or without    *)
(* fill and asset key.  Every stored object is there.                      *)
(***************************************************************************)
Host == Root + 2
Icon == Root + 3
HostText == Root + 4
Inner == Root + 5
InnerText == Root + 6
Probe == Root + 7

ProbeTypes == {"RECTANGLE", "VECTOR", "TEXT"}
ProbeNames == {"bg", "photo_main", "text_title", "sticker"}

ProbeRaw(type, name, filled, keyed) ==
  [RawNode(Root, name, type, BBox(Px(600), Px(400), Px(100), Px(50)), <<>>) EXCEPT
     !.fills = IF filled THEN <<SolidPaint>> ELSE <<>>,
     !.assetKey = IF keyed THEN "logo" ELSE NoStr,
     !.characters = <<"a", "b">>]

OrderFrame(hostFilled, mode, iconFilled, probe) ==
  << [RawNode(0, "frame", "FRAME", BBox(0, 0, Px(800), Px(600)), <<Background, Host, Probe>>)
        EXCEPT !.fills = <<SolidPaint>>],
     FilledRect(Root, "bg", BBox(0, 0, Px(800), Px(600))),
     [RawNode(Root, "pill", "FRAME", BBox(Px(100), Px(100), Px(400), Px(200)),
              <<Icon, HostText, Inner>>)
        EXCEPT !.fills = IF hostFilled THEN <<SolidPaint>> ELSE <<>>, !.layoutMode = mode,
               !.paddingLeft = Px(10), !.paddingRight = Px(10),
               !.paddingTop = Px(10), !.paddingBottom = Px(10), !.itemSpacing = Px(10)],
     [RawNode(Host, "bg", "RECTANGLE", BBox(Px(110), Px(110), Px(40), Px(40)), <<>>)
        EXCEPT !.fills = IF iconFilled THEN <<SolidPaint>> ELSE <<>>],
     TextNodeRaw(Host, "text_title", BBox(Px(160), Px(110), Px(150), Px(40)),
                 Style(NoStr, Px(20), NoNum, NoNum), NoStr, NoStr),
     RawNode(Host, "pill", "GROUP", BBox(Px(320), Px(110), Px(150), Px(40)), <<InnerText>>),
     TextNodeRaw(Inner, "Text body", BBox(Px(320), Px(110), Px(150), Px(40)),
                 Style(NoStr, Px(20), NoNum, NoNum), NoStr, NoStr),
     probe >>

InitOrder ==
  /\ StartRender
  /\ \E hostFilled \in BOOLEAN, mode \in {"HORIZONTAL", "VERTICAL"}, iconFilled \in BOOLEAN,
        type \in ProbeTypes, name \in ProbeNames, filled \in BOOLEAN, keyed \in BOOLEAN :
        frameNode = OrderFrame(hostFilled, mode, iconFilled, ProbeRaw(type, name, filled, keyed))
  /\ assetsMap = <<>>
  /\ \/ fields = <<>>
     \/ fields = [name \in {"photo_main"} |-> UploadKey]
  /\ storage = Stored("ok", "ok", "ok", "ok")

SpecOrder == InitOrder /\ [][NextRender]_vars

\* the rank of a node in document order: the pre-order walk of the frame tree
DocumentOrder == collectNodes(tree, Root)
RankOf(n) == CHOOSE i \in 1..Len(DocumentOrder) : DocumentOrder[i] = n

InRankOrder(ls) ==
  \A i \in 1..Len(ls) : \A j \in 1..Len(ls) :
    i < j => RankOf(ls[i].nodeId) < RankOf(ls[j].nodeId)

\* C12, as the claim states it: the layers handed to the composite are in
\* document order of the nodes they draw.
C12_LayersInDocumentOrder ==
  pc = "done" => (InRankOrder(layers) /\ InRankOrder(composite))

\* the node renderNodeTree was at when it pushed a layer: for a text layer of
\* a text-hosting container it is the container, not the text node whose id
\* the layer bears
EmitterOf(l) ==
  IF getEditableKind(tree[l.nodeId].name) = "text"
     /\ findNearestResizableContainer(tree, l.nodeId) # 0
  THEN findNearestResizableContainer(tree, l.nodeId)
  ELSE l.nodeId

InEmitterOrder(ls) ==
  \A i \in 1..Len(ls) : \A j \in 1..Len(ls) :
    i < j => RankOf(EmitterOf(ls[i])) < RankOf(EmitterOf(ls[j]))

\* C12, amended: the layers handed to the composite are in document order of
\* the nodes the walk was at when it pushed them, and the composite keeps
\* the order of the layers.
C12_LayersInWalkOrder ==
  /\ pc \in {"walk", "done"} => InEmitterOrder(layers)
  /\ pc = "done" => InEmitterOrder(composite)

\* the container's layer, bearing the id of its text node, lies under the
\* layer of the icon that precedes the text node in document order
C12_Witness ==
  /\ pc = "done"
  /\ \E i \in 1..Len(composite) : \E j \in 1..Len(composite) :
       /\ i < j
       /\ composite[i].nodeId = HostText /\ EmitterOf(composite[i]) = Host
       /\ composite[j].nodeId = Icon
  /\ \E k \in 1..Len(composite) : composite[k].nodeId = Probe

\* the layers that draw text, and the text nodes a layer draws: those mapped
\* to the container that emitted it, or the one text node itself
IsTextLayer(l) == "content" \in DOMAIN l
TextNodesOf(l) ==
  IF EmitterOf(l) # l.nodeId THEN containerTextMap(tree, EmitterOf(l)) ELSE <<l.nodeId>>
LayersDrawing(t) ==
  {i \in 1..Len(layers) : IsTextLayer(layers[i])
                          /\ \E k \in 1..Len(layers[i].content) : TextNodesOf(layers[i])[k] = t}

\* C15: every editable text node is drawn in at most one layer: the text
\* nodes mapped to a container are drawn in the container's one layer, which
\* bears the id of the first of them, and never in a layer of their own.
C15_TextDrawnOnce ==
  pc \in {"walk", "done"} =>
    /\ \A i \in 1..Len(layers) : IsTextLayer(layers[i]) =>
         /\ Len(layers[i].content) = Len(TextNodesOf(layers[i]))
         /\ layers[i].nodeId = TextNodesOf(layers[i])[1]
         /\ \A j \in 1..Len(layers) : layers[j].nodeId = layers[i].nodeId => j = i
    /\ \A t \in DOMAIN tree : Cardinality(LayersDrawing(t)) <= 1

\* the walk went over a text node inside a group, after the container above
\* the group had drawn it together with the container's own text node
C15_Witness ==
  /\ pc = "done"
  /\ InnerText \in visited
  /\ LayersDrawing(InnerText) = LayersDrawing(HostText)
  /\ Cardinality(LayersDrawing(InnerText)) = 1
  /\ \E i \in 1..Len(layers) : layers[i].nodeId = HostText /\ Len(layers[i].content) = 2

\* what the render did with the closing node, seen from what it left behind:
\* a layer with text, an object fetched under the key of a manual asset or
\* under the node's asset key, a field used, a layer of plain fill, or nothing
StickerKey == manualAssetCandidates("sticker")[1]
ProbeLayers == SelectSeq(layers, LAMBDA l : l.nodeId = Probe)
DrawnAs ==
  IF Len(ProbeLayers) > 0 /\ IsTextLayer(ProbeLayers[1]) THEN "text"
  ELSE IF StickerKey \in assetsCache THEN "manual"
  ELSE IF <<"logo">> \in assetsCache THEN "asset"
  ELSE IF tree[Probe].name \in fieldsUsed THEN "photo"
  ELSE IF Len(ProbeLayers) > 0 THEN "fill"
  ELSE "none"

IsFilled(n) == Len(frameNode[n].fills) > 0
\* the rule of the claim's list that is the first to match the closing node
ListedRule ==
  IF frameNode[Probe].name = "photo_main"
  THEN IF "photo_main" \in DOMAIN fields THEN "photo" ELSE "none"
  ELSE IF frameNode[Probe].name = "text_title" THEN "text"
  ELSE IF frameNode[Probe].type \in {"FRAME", "RECTANGLE"} /\ IsFilled(Probe) THEN "fill"
  ELSE IF frameNode[Probe].assetKey # NoStr THEN "asset"
  ELSE IF frameNode[Probe].children = <<>> /\ IsFilled(Probe) THEN "fill"
  ELSE "none"

RuleInCode ==
  IF frameNode[Probe].name = "sticker" THEN "manual" ELSE ListedRule

Lone == Root + 1
Dot == Root + 2

RawBoxes ==
  {Null} \cup
  {BBox(x, Px(10), w, h) : x \in {0, NaN, PosInf, -Px(2000)}, w \in {Px(100), 0, -Px(5), NaN, NoNum},
                           h \in {Px(50), -Px(5), NegInf}}

InitBbox ==
  /\ StartRender
  /\ assetsMap = <<>> /\ fields = <<>> /\ storage = <<>>
  /\ \E bbox \in RawBoxes :
       frameNode = << [RawNode(0, "frame", "FRAME", BBox(0, 0, Px(800), Px(600)), <<Lone>>)
                         EXCEPT !.fills = <<SolidPaint>>],
                      [FilledRect(Root, "bg", bbox) EXCEPT !.type = "FRAME", !.children = <<Dot>>],
                      FilledRect(Lone, "dot", BBox(Px(20), Px(20), Px(30), Px(30))) >>

SpecBbox == InitBbox /\ [][NextRender]_vars

RawBoxOf(n) == frameNode[n].absoluteBoundingBox
FiniteBox(b) == IsFinite(b.x) /\ IsFinite(b.y) /\ IsFinite(b.width) /\ IsFinite(b.height)

\* C13: after normalization every node's bbox, if present, has finite x, y,
\* width and height with width >= 0 and height >= 0, and a node whose raw
\* bounding box is missing or not finite has no bbox.
C13_BboxFiniteNonNegative ==
  \A n \in DOMAIN tree :
    /\ tree[n].bbox # Null =>
         /\ FiniteBox(tree[n].bbox)
         /\ tree[n].bbox.width >= 0 /\ tree[n].bbox.height >= 0
    /\ (RawBoxOf(n) = Null \/ ~FiniteBox(RawBoxOf(n))) => tree[n].bbox = Null

\* a bounding box of negative width and height, kept as the node's bbox
C13_NegativeBoxKept ==
  /\ pc = "done"
  /\ tree[Lone].bbox = BBox(0, Px(10), -Px(5), -Px(5))

(***************************************************************************)
(* SpecFont: asynchronous callers of loadFontCached on one event loop.  A   *)
(* call runs to its return without interruption: the function awaits       *)
(* nothing.  The file read, the parse in the promise's then-callback and   *)
(* the resumption of each awaiting caller are later turns of the loop, in  *)
(* any order.  A read or a parse can fail, and the promise is rejected.    *)
(***************************************************************************)
NumCallers == 2
MaxLoads == 2
FontPaths == {"gothampro_medium.ttf", "gothampro_bold.ttf"}
Callers == 1..NumCallers

\* a mutant of fontCache.set that stores nothing
fontCacheForget(cache, ttfPath, promise) == cache

\* fontCache.set(ttfPath, promise)
fontCacheSet(cache, ttfPath, promise) == [cache EXCEPT ![ttfPath] = promise]

InitFont ==
  /\ pc = "serving"
  /\ IdleWrap /\ IdleGuard /\ IdleInput /\ IdleRender /\ frameW = Px(1) /\ frameH = Px(1)
  /\ IdleTrunc /\ IdleFigma /\ IdleSync
  /\ fontCache = [ttfPath \in FontPaths |-> 0]
  /\ promises = <<>>
  /\ callers = [c \in Callers |-> [awaiting |-> 0, loads |-> 0, received |-> {}]]

\* one call of loadFontCached(ttfPath), up to the caller's await of the returned promise
LoadFont(c, ttfPath) ==
  /\ pc = "serving"
  /\ callers[c].awaiting = 0 /\ callers[c].loads < MaxLoads
  /\ IF fontCache[ttfPath] # 0
     THEN /\ callers' = [callers EXCEPT ![c].awaiting = fontCache[ttfPath], ![c].loads = @ + 1]
          /\ UNCHANGED <<fontCache, promises>>
     ELSE /\ promises' = Append(promises, [path |-> ttfPath, state |-> "reading", font |-> 0])
          /\ fontCache' = fontCacheSet(fontCache, ttfPath, Len(promises) + 1)
          /\ callers' = [callers EXCEPT ![c].awaiting = Len(promises) + 1, ![c].loads = @ + 1]
  /\ UNCHANGED <<pc, renderVars, truncVars, figmaVars, syncVars>>

\* readFile(ttfPath) completes: with the file's bytes, or with an error
ReadFile(p) ==
  /\ pc = "serving"
  /\ p \in DOMAIN promises /\ promises[p].state = "reading"
  /\ \E outcome \in {"read", "rejected"} : promises' = [promises EXCEPT ![p].state = outcome]
  /\ UNCHANGED <<pc, renderVars, truncVars, figmaVars, syncVars, fontCache, callers>>

\* the then-callback: parse(arrayBuffer) returns a new Font object, or throws
ParseFont(p) ==
  /\ pc = "serving"
  /\ p \in DOMAIN promises /\ promises[p].state = "read"
  /\ \/ promises' = [promises EXCEPT ![p].state = "fulfilled", ![p].font = p]
     \/ promises' = [promises EXCEPT ![p].state = "rejected"]
  /\ UNCHANGED <<pc, renderVars, truncVars, figmaVars, syncVars, fontCache, callers>>

\* a caller's await of the promise ends: it holds the Font object, or the error is thrown at it
Resume(c) ==
  /\ pc = "serving"
  /\ callers[c].awaiting # 0
  /\ promises[callers[c].awaiting].state \in {"fulfilled", "rejected"}
  /\ callers' = [callers EXCEPT
       ![c].awaiting = 0,
       ![c].received = IF promises[callers[c].awaiting].state = "fulfilled"
                       THEN @ \cup {[path |-> promises[callers[c].awaiting].path,
                                     font |-> promises[callers[c].awaiting].font]}
                       ELSE @]
  /\ UNCHANGED <<pc, renderVars, truncVars, figmaVars, syncVars, fontCache, promises>>

NextFont ==
  \/ \E c \in Callers : \E ttfPath \in FontPaths : LoadFont(c, ttfPath)
  \/ \E p \in 1..(NumCallers * MaxLoads) : ReadFile(p)
  \/ \E p \in 1..(NumCallers * MaxLoads) : ParseFont(p)
  \/ \E c \in Callers : Resume(c)

SpecFont == InitFont /\ [][NextFont]_vars

\* the reads of a font file: one per promise made for its path; the parses: one
\* per promise whose read completed
ReadsOf(ttfPath) == {p \in DOMAIN promises : promises[p].path = ttfPath}
FontsReceived == UNION {callers[c].received : c \in DOMAIN callers}

\* C14: whatever the interleaving of the loads, the file of one font path is
\* read and parsed at most once, and all callers that asked for the path
\* hold the same Font object.
C14_FontLoadedOnce ==
  pc = "serving" =>
    /\ \A ttfPath \in FontPaths : Cardinality(ReadsOf(ttfPath)) <= 1
    /\ \A r1 \in FontsReceived : \A r2 \in FontsReceived : r1.path = r2.path => r1.font = r2.font
    /\ \A c \in Callers : callers[c].awaiting # 0 => callers[c].awaiting \in DOMAIN promises

\* both callers asked for one font while its file was still being read, one of
\* them asked again later, and both hold the object of the one parse
C14_Witness ==
  /\ pc = "serving"
  /\ \E ttfPath \in FontPaths :
       /\ Cardinality(ReadsOf(ttfPath)) = 1
       /\ \A c \in Callers : callers[c].received = {[path |-> ttfPath, font |-> fontCache[ttfPath]]}
       /\ callers[1].loads = 2 /\ callers[2].loads = 1

HasBox(n) == computedBoxes[n] # Null
Drawn == {layers[i].nodeId : i \in 1..Len(layers)}
Rejected == {badBoxes[i].label[2] : i \in 1..Len(badBoxes)}

RECURSIVE UnderBoxless(_)
UnderBoxless(n) ==
  /\ tree[n].parentId # 0
  /\ (tree[tree[n].parentId].bbox = Null \/ UnderBoxless(tree[n].parentId))

\* the box renderNodeTree draws a node in
BoxDrawn(n) == IF HasBox(n) THEN computedBoxes[n] ELSE getRawRelativeBox(tree[n], frameX, frameY)

C17_DrawnWithoutEntry ==
  /\ pc = "done"
  /\ tree[Lone].bbox = Null
  /\ Dot \in Drawn /\ ~HasBox(Dot)

(***************************************************************************)
(* SpecWrap: one call of wrapTextByWords on a text, then a second call on  *)
(* the returned lines joined by line breaks, at the same width.            *)
(***************************************************************************)
\* every caller's budget is Math.max(1, ...): at least one pixel
WrapBudgets == {Px(1), 193, 320, 400, 650}
LetterSpacings == {-100, 0, 7}
WrapFonts == {1, 2}

InitWrap ==
  /\ pc = "start"
  /\ IdleGuard /\ IdleInput /\ IdleRender /\ IdleServices /\ frameW = Px(1) /\ frameH = Px(1)
  /\ text \in Texts
  /\ maxWidthPx \in WrapBudgets
  /\ font \in WrapFonts
  /\ letterSpacingPx \in LetterSpacings
  /\ lines = <<>>
  /\ relines = <<>>

Wrap ==
  /\ pc = "start"
  /\ lines' = wrapTextByWords(text, maxWidthPx, Fonts[font], letterSpacingPx)
  /\ pc' = "wrapped"
  /\ UNCHANGED <<text, maxWidthPx, font, letterSpacingPx, relines>>
  /\ UNCHANGED <<serviceVars, guardVars, inputVars, contextVars, frameW, frameH, walkVars, badBoxes, outVars>>

Rewrap ==
  /\ pc = "wrapped"
  /\ relines' = wrapTextByWords(JoinLines(lines), maxWidthPx, Fonts[font], letterSpacingPx)
  /\ pc' = "rewrapped"
  /\ UNCHANGED <<text, maxWidthPx, font, letterSpacingPx, lines>>
  /\ UNCHANGED <<serviceVars, guardVars, inputVars, contextVars, frameW, frameH, walkVars, badBoxes, outVars>>

NextWrap == Wrap \/ Rewrap

SpecWrap == InitWrap /\ [][NextWrap]_vars

\* every word of the text, over all its paragraphs
RECURSIVE AllWords(_)
AllWords(ps) == IF Len(ps) = 0 THEN {} ELSE {Words(ps[1])[i] : i \in 1..Len(Words(ps[1]))} \cup AllWords(Tail(ps))

IsPieceOf(l, w) == \E i \in 1..Len(w) : \E j \in i..Len(w) : SubSeq(w, i, j) = l

Fits(l) == Le(measureTextPx(l, Fonts[font], letterSpacingPx), maxWidthPx)

\* C3: every line wrap returns fits the budget, unless the line is (a piece
\* of) one single word of the text that is itself wider than the budget.
C3_LinesFitBudget ==
  pc # "start" =>
    \A i \in 1..Len(lines) :
      \/ Fits(lines[i])
      \/ \E w \in AllWords(Paragraphs(text)) : ~Fits(w) /\ IsPieceOf(lines[i], w)

\* a text of several words, one of which is split, and a line of two words
C3_Witness ==
  /\ pc = "wrapped"
  /\ \E i \in 1..Len(lines) : ~Fits(lines[i])
  /\ \E i \in 1..Len(lines) : "s" \in {lines[i][k] : k \in 1..Len(lines[i])}

\* C4: wrapping the returned lines again, joined by line breaks, at the same
\* width returns the same lines; the empty text wraps to one empty line.
C4_WrapIdempotent ==
  /\ pc = "rewrapped" => relines = lines
  /\ (pc # "start" /\ text = <<>>) => lines = << <<>> >>

\* a text that wrap breaks into several lines, one of them a forced piece
C4_Witness ==
  /\ pc = "rewrapped"
  /\ Len(lines) >= 3
  /\ lines # Paragraphs(text)
  /\ \E i \in 1..Len(lines) : ~Fits(lines[i])

\* the words of the text that are wider than the budget, and the pieces
\* splitLongWord makes of such a word
LongWords == {w \in AllWords(Paragraphs(text)) : ~Fits(w)}
PiecesOf(w) == splitLongWord(w, maxWidthPx, Fonts[font], letterSpacingPx)
\* what is left of the word when the k-th piece is cut
RestAt(pieces, k) == Concat(SubSeq(pieces, k, Len(pieces)))
Whole(pieces, w) ==
  /\ Len(pieces) >= 1 /\ Len(pieces) <= Len(w)
  /\ \A k \in 1..Len(pieces) : Len(pieces[k]) >= 1
  /\ Concat(pieces) = w
\* the pieces of a text of one word are the lines of the wrapped text
AreLines(pieces, w) == text = w => lines = pieces

LongestFitting(piece, rest) ==
  /\ Fits(piece)
  /\ \A m \in (Len(piece) + 1)..Len(rest) : ~Fits(SubSeq(rest, 1, m))

\* C20, as the claim states it: the split of a word wider than the budget
\* ends, in non-empty pieces that concatenate to the word, each the longest
\* prefix of the characters left whose width is within the budget.
C20_PiecesLongestFitting ==
  pc # "start" =>
    \A w \in LongWords :
      /\ Whole(PiecesOf(w), w)
      /\ \A k \in 1..Len(PiecesOf(w)) : LongestFitting(PiecesOf(w)[k], RestAt(PiecesOf(w), k))

\* the longest prefix that fits together with all its shorter prefixes, or
\* the first character alone when that one does not fit
LongestRunOrOne(piece, rest) ==
  IF Fits(SubSeq(rest, 1, 1))
  THEN /\ \A m \in 1..Len(piece) : Fits(SubSeq(rest, 1, m))
       /\ Len(piece) < Len(rest) => ~Fits(SubSeq(rest, 1, Len(piece) + 1))
  ELSE Len(piece) = 1

\* C20, amended: the split ends, in non-empty pieces that concatenate to the
\* word and are the lines of a text made of that word alone; each piece is
\* the longest prefix of the characters left such that it and all its
\* shorter prefixes are within the budget, and one character when the first
\* character left is wider than the budget.
C20_PiecesLongestRun ==
  pc # "start" =>
    \A w \in LongWords :
      /\ Whole(PiecesOf(w), w)
      /\ AreLines(PiecesOf(w), w)
      /\ \A k \in 1..Len(PiecesOf(w)) : LongestRunOrOne(PiecesOf(w)[k], RestAt(PiecesOf(w), k))

\* a word of three characters or more under a budget smaller than any of
\* them: one line for each character, each wider than the budget
C20_Witness ==
  /\ pc = "wrapped"
  /\ text \in LongWords /\ Len(text) >= 3
  /\ lines = PiecesOf(text) /\ Len(lines) = Len(text)
  /\ \A k \in 1..Len(lines) : ~Fits(lines[k])

\* a word split into pieces of several characters that fit
C20_FittingPieces ==
  /\ pc = "wrapped"
  /\ text \in LongWords
  /\ lines = PiecesOf(text) /\ Len(lines) >= 2
  /\ \A k \in 1..Len(lines) : Fits(lines[k])
  /\ Len(lines[1]) >= 2

(***************************************************************************)
(* SpecTrunc: the title of the generate route, wrapped at a width and then *)
(* truncated to a number of lines with an ellipsis, with the width, font   *)
(* and letter spacing of the wrap as its width context or with none.       *)
(***************************************************************************)
MaxLineLimit == 2
TruncBudgets == {Px(1), 193, 400}
Ellipses == {<<".">>, <<".", ".">>}

InitTrunc ==
  /\ pc = "start"
  /\ IdleGuard /\ IdleInput /\ IdleRender /\ IdleFont /\ IdleFigma /\ IdleSync
  /\ frameW = Px(1) /\ frameH = Px(1)
  /\ text \in Texts
  /\ maxWidthPx \in TruncBudgets
  /\ font = 1
  /\ letterSpacingPx = 0
  /\ lines = <<>> /\ relines = <<>>
  /\ lineLimit \in 1..MaxLineLimit
  /\ ellipsis \in Ellipses
  /\ widthCtx \in BOOLEAN
  /\ truncated = <<>>

Truncate ==
  /\ pc = "wrapped"
  /\ truncated' = truncateLines(lines, lineLimit, ellipsis, widthCtx, maxWidthPx, Fonts[font],
                                letterSpacingPx)
  /\ pc' = "truncated"
  /\ UNCHANGED <<renderVars, fontVars, figmaVars, syncVars, lineLimit, ellipsis, widthCtx>>

NextTrunc == Wrap \/ Truncate

SpecTrunc == InitTrunc /\ [][NextTrunc]_vars

EndsWithEllipsis(l) ==
  /\ Len(l) >= Len(ellipsis)
  /\ SubSeq(l, Len(l) - Len(ellipsis) + 1, Len(l)) = ellipsis
WithoutEllipsis(l) == SubSeq(l, 1, Len(l) - Len(ellipsis))
Truncating == pc = "truncated" /\ Len(lines) > lineLimit

\* the shape the claim gives the truncated lines: as many as the limit, the
\* first unchanged, the last a prefix of the line at the limit and the ellipsis
TruncatedShape ==
  /\ Len(truncated) = lineLimit
  /\ \A i \in 1..(lineLimit - 1) : truncated[i] = lines[i]
  /\ EndsWithEllipsis(truncated[lineLimit])
  /\ IsPrefixOf(WithoutEllipsis(truncated[lineLimit]), lines[lineLimit])

\* C21, as the claim states it: more lines than the limit are truncated to
\* the limit, the first unchanged and the last a prefix of the line at the
\* limit with the ellipsis, no wider than the budget when the options hold
\* a width context.
C21_TruncatedFitsBudget ==
  Truncating =>
    /\ TruncatedShape
    /\ widthCtx => Fits(truncated[lineLimit])

\* C21, amended: the last line is no wider than the budget unless it is the
\* ellipsis alone, which is kept when nothing else fits; with a width
\* context it is the longest of the prefixes cut back by one more than the
\* ellipsis's length each time that fits, without one it is the whole line.
C21_TruncatedFitsOrBare ==
  /\ Truncating =>
       /\ TruncatedShape
       /\ widthCtx => (Fits(truncated[lineLimit]) \/ truncated[lineLimit] = ellipsis)
       /\ (widthCtx /\ Fits(lines[lineLimit] \o ellipsis)) =>
            truncated[lineLimit] = lines[lineLimit] \o ellipsis
       /\ ~widthCtx => truncated[lineLimit] = lines[lineLimit] \o ellipsis
  /\ (pc = "truncated" /\ Len(lines) <= lineLimit) => truncated = lines

\* a line cut back to a shorter prefix and the ellipsis, within the budget
C21_Witness ==
  /\ Truncating /\ widthCtx /\ lineLimit = 2
  /\ Fits(truncated[2])
  /\ Len(WithoutEllipsis(truncated[2])) >= 1
  /\ Len(WithoutEllipsis(truncated[2])) < Len(lines[2])

\* nothing but the ellipsis is left, wider than the budget
C21_BareEllipsis ==
  /\ Truncating /\ widthCtx
  /\ truncated[lineLimit] = ellipsis /\ ~Fits(ellipsis)

(***************************************************************************)
(* SpecFigma: one call of figmaClient.figmaFetchRawWithOptions.  The       *)
(* Figma API answers each request with a status and a body, or the request *)
(* is aborted by the timeout, or the network fails.  Numbers here are      *)
(* whole numbers, a Retry-After header is a string (NoStr when absent).    *)
(* The call starts once getFigmaEnv has returned the token.                *)
(***************************************************************************)
FIGMA_MAX_RETRIES == 3
MAX_JITTER_MS == 200
\* the largest maxRetries option tried
MaxRetriesOption == 2

\* Number(retryAfter) of the header values of the model
NumberOf(header) ==
  CASE header = "0" -> 0 [] header = "2" -> 2 [] OTHER -> NaN

\* getRetryDelayMs, for headers that are no dates
getRetryDelayMs(retryAfter, n) ==
  IF retryAfter = NoStr THEN 500 * (n + 1)
  ELSE IF IsFinite(NumberOf(retryAfter)) /\ NumberOf(retryAfter) >= 0
       THEN NumberOf(retryAfter) * 1000
       ELSE 500 * (n + 1)

\* parseRetryAfterSeconds: the seconds rounded up, or NoNum for null
parseRetryAfterSeconds(retryAfter) ==
  IF retryAfter = NoStr THEN NoNum
  ELSE IF IsFinite(NumberOf(retryAfter)) /\ NumberOf(retryAfter) >= 0
       THEN NumberOf(retryAfter)
       ELSE NoNum

\* the delay before the retry, without the jitter
baseDelay(retryAfter, n) ==
  IF parseRetryAfterSeconds(retryAfter) # NoNum THEN parseRetryAfterSeconds(retryAfter) * 1000
  ELSE getRetryDelayMs(retryAfter, n)

\* maxRetries and sleepOn429, from the options
maxRetriesOf(o) ==
  IF IsFinite(o.maxRetries) THEN MathMax(0, o.maxRetries) ELSE FIGMA_MAX_RETRIES
sleepOn429Of(o) == IF o.sleepOn429 = NoStr THEN TRUE ELSE o.sleepOn429 = "true"

\* every status is answered with another attempt
everyStatusRetried(status) == TRUE
\* the status the loop answers with another attempt
retriedStatus(status) == status = 429

FigmaApiError(status) == [name |-> "FigmaApiError", status |-> status]
FigmaData == [name |-> "data"]

\* what a request comes back with
Answer(status, retryAfter, body) ==
  [kind |-> "response", status |-> status, retryAfter |-> retryAfter, body |-> body]
Aborted == [kind |-> "abort", status |-> 0, retryAfter |-> NoStr, body |-> "none"]
NetworkFailure == [kind |-> "network", status |-> 0, retryAfter |-> NoStr, body |-> "none"]
Answers ==
  {Answer(200, NoStr, "good"), Answer(200, NoStr, "broken"),
   Answer(429, NoStr, "good"), Answer(429, "2", "broken"), Answer(429, "soon", "good"),
   Answer(401, NoStr, "good"), Answer(403, NoStr, "broken"), Answer(500, "0", "good"),
   Aborted, NetworkFailure}

\* the catch clause of the loop body: the error thrown for what was caught
caught(a) ==
  IF a.kind = "abort" THEN FigmaApiError(504) ELSE FigmaApiError(500)

\* the call settled by an answer that is not retried
settledBy(a) ==
  IF a.kind # "response" THEN caught(a)
  ELSE IF a.status \notin 200..299 THEN FigmaApiError(a.status)
  ELSE IF a.body = "good" THEN FigmaData
  ELSE caught(a)

InitFigma ==
  /\ pc = "figma_loop"
  /\ IdleWrap /\ IdleGuard /\ IdleInput /\ IdleRender /\ frameW = Px(1) /\ frameH = Px(1)
  /\ IdleFont /\ IdleTrunc /\ IdleSync
  /\ options \in [maxRetries : {NoNum, NaN, -1} \cup 0..MaxRetriesOption,
                  sleepOn429 : {NoStr, "true", "false"}]
  /\ attempt = 0 /\ sent = 0 /\ responses = <<>> /\ delay = 0 /\ fetchResult = Null

\* the head of the loop: one more request, or the throw past the loop
FigmaRequest ==
  /\ pc = "figma_loop"
  /\ IF attempt <= maxRetriesOf(options)
     THEN sent' = sent + 1 /\ pc' = "figma_await" /\ UNCHANGED fetchResult
     ELSE fetchResult' = FigmaApiError(500) /\ pc' = "figma_thrown" /\ UNCHANGED sent
  /\ UNCHANGED <<renderVars, fontVars, truncVars, syncVars, options, attempt, responses, delay>>

\* the request comes back: the call sleeps, goes round the loop or settles
FigmaAnswer ==
  /\ pc = "figma_await"
  /\ \E a \in Answers, jitter \in {0, MAX_JITTER_MS} :
       /\ responses' = Append(responses, a)
       /\ IF a.kind = "response" /\ retriedStatus(a.status) /\ attempt < maxRetriesOf(options)
          THEN IF sleepOn429Of(options)
               THEN /\ delay' = baseDelay(a.retryAfter, attempt) + jitter
                    /\ pc' = "figma_sleep"
                    /\ UNCHANGED <<attempt, fetchResult>>
               ELSE /\ attempt' = attempt + 1
                    /\ pc' = "figma_loop"
                    /\ UNCHANGED <<delay, fetchResult>>
          ELSE /\ fetchResult' = settledBy(a)
               /\ pc' = IF settledBy(a) = FigmaData THEN "figma_returned" ELSE "figma_thrown"
               /\ UNCHANGED <<attempt, delay>>
  /\ UNCHANGED <<renderVars, fontVars, truncVars, syncVars, options, sent>>

\* the timer of the sleep fires
FigmaWake ==
  /\ pc = "figma_sleep"
  /\ attempt' = attempt + 1
  /\ pc' = "figma_loop"
  /\ UNCHANGED <<renderVars, fontVars, truncVars, syncVars, options, sent, responses, delay,
                 fetchResult>>

NextFigma == FigmaRequest \/ FigmaAnswer \/ FigmaWake

\* every request is answered, aborted by the timeout or failed by the
\* network, and every timer fires
SpecFigma == InitFigma /\ [][NextFigma]_vars /\ WF_vars(NextFigma)

FigmaSettled == pc \in {"figma_returned", "figma_thrown"}
\* the retries the options allow, as the claim counts them
AllowedRetries ==
  IF options.maxRetries \in 0..MaxRetriesOption + 1 THEN options.maxRetries
  ELSE IF options.maxRetries = -1 THEN 0 ELSE FIGMA_MAX_RETRIES
LastAnswer == responses[Len(responses)]
FigmaBounded ==
  /\ sent <= AllowedRetries + 1
  /\ Len(responses) <= sent
  /\ \A i \in 1..(Len(responses) - 1) :
       responses[i].kind = "response" /\ responses[i].status = 429
  /\ FigmaSettled =>
       /\ sent = Len(responses) /\ sent >= 1
       /\ fetchResult # Null
       /\ fetchResult = FigmaData <=>
            (LastAnswer.kind = "response" /\ LastAnswer.status = 200 /\ LastAnswer.body = "good")
       /\ fetchResult # FigmaData =>
            /\ fetchResult.name = "FigmaApiError"
            /\ LastAnswer.kind = "abort" => fetchResult.status = 504
            /\ LastAnswer.kind = "network" => fetchResult.status = 500
            /\ (LastAnswer.kind = "response" /\ LastAnswer.status # 200) =>
                 fetchResult.status = LastAnswer.status
            /\ (LastAnswer.kind = "response" /\ LastAnswer.status = 429) =>
                 sent = AllowedRetries + 1

ADMIN_SYNC_LOCK_TTL_MS == 15 * 60 * 1000
\* the number of requests, and the number of times the clock advances
NumRequests == 2
MaxTicks == 1

Processes == {"a", "b"}
Requests == 1..NumRequests

\* the lock object a request writes; writer names the request in the model
\* and is no part of the stored object
SyncLock(r, owner, now) ==
  [writer |-> r, owner |-> owner, startedAt |-> now, expiresAt |-> now + ADMIN_SYNC_LOCK_TTL_MS]

\* existingLock && Date.parse(existingLock.expiresAt) > now
isLocked(existingLock, now) == existingLock # Null /\ existingLock.expiresAt > now

\* a run that saves whether or not it is a dry run
savesAlways(dryRun) == TRUE
\* if (!dryRun): the run saves snapshots and assets
savesSnapshots(dryRun) == ~dryRun

\* a put or a delete of an object, as the log keeps it: whether the run is a
\* dry run, and the object's key; of a delete, by is the request, of is the
\* writer of the lock removed (0 when there was none), and late tells that
\* this lock was written at or after the time expiresAt
Written(dryRun, key) ==
  [by |-> 0, dry |-> dryRun, op |-> "put", key |-> key, of |-> 0, late |-> FALSE]
Deleted(r, dryRun, lock, expiresAt) ==
  [by |-> r, dry |-> dryRun, op |-> "delete", key |-> "lock",
   of |-> IF lock = Null THEN 0 ELSE lock.writer,
   late |-> lock # Null /\ lock.startedAt >= expiresAt]

\* the steps of the try block (the first saves of the meta record, the
\* fetches and saves of templates, assets, frames and schemas, and the last
\* save of the meta record), the objects each saves beside the meta record,
\* and the step that follows
BodySteps == {"init", "save", "finish"}
snapshotsOf(step) ==
  IF step = "save" THEN {"templates", "asset", "frame", "schema"} ELSE {}
stepAfter(step) ==
  CASE step = "init" -> "save"
    [] step = "save" -> "finish"
    [] OTHER -> "finally"

\* a request that has not arrived; a request that was answered keeps its
\* status and nothing else
NoRequest == [proc |-> "a", at |-> "idle", now |-> 0, dry |-> FALSE, status |-> 0]
Finished(status) == [NoRequest EXCEPT !.at = "done", !.status = status]
\* a request that threw out of the handler before the try block
ThrownIn(p) == [NoRequest EXCEPT !.at = "thrown", !.proc = p]
\* the request is between its arrival and its response
InFlight(r) == requests[r].at \notin {"idle", "done", "thrown"}
\* the request is between acquiring and releasing the sync lock
Running(r) == requests[r].at \in BodySteps \cup {"catch", "finally"}
\* the request threw out of the handler, before the try block (a request
\* that throws in the catch clause is answered with status -1)
Threw(r) == requests[r].at = "thrown"

InitSync ==
  /\ pc = "syncing"
  /\ IdleWrap /\ IdleGuard /\ IdleInput /\ IdleRender /\ frameW = Px(1) /\ frameH = Px(1)
  /\ IdleFont /\ IdleTrunc /\ IdleFigma
  /\ syncRunning = [p \in Processes |-> FALSE]
  /\ requests = [r \in Requests |-> NoRequest]
  /\ clock = 0
  /\ bucket = [lock |-> Null]
  /\ writeLog = {}

Answered(r, status) == requests' = [requests EXCEPT ![r] = Finished(status)]

\* POST, to its first await; the requests arrive in the order of their numbers
Post(r) ==
  /\ requests[r].at = "idle"
  /\ \A q \in Requests : q < r => requests[q].at # "idle"
  /\ \E p \in Processes, authorized \in BOOLEAN, hasFileKey \in BOOLEAN, dryRun \in BOOLEAN :
       IF ~authorized THEN Answered(r, 403) /\ UNCHANGED syncRunning
       ELSE IF syncRunning[p] THEN Answered(r, 409) /\ UNCHANGED syncRunning
       ELSE IF ~hasFileKey THEN Answered(r, 500) /\ UNCHANGED syncRunning
       ELSE /\ syncRunning' = [syncRunning EXCEPT ![p] = TRUE]
            /\ requests' = [requests EXCEPT ![r] =
                              [proc |-> p, at |-> "readLock", now |-> clock, dry |-> dryRun,
                               status |-> 0]]
  /\ UNCHANGED <<pc, renderVars, fontVars, truncVars, figmaVars, clock, bucket, writeLog>>

\* await readAdminSyncLock(fileKey), and the test of the lock read
ReadLock(r) ==
  /\ requests[r].at = "readLock"
  /\ \E ok \in BOOLEAN :
       requests' = [requests EXCEPT ![r] =
         IF ~ok THEN ThrownIn(requests[r].proc)
         ELSE IF isLocked(bucket.lock, requests[r].now) THEN [@ EXCEPT !.at = "readMeta"]
         ELSE [@ EXCEPT !.at = "writeLock"]]
  /\ UNCHANGED <<pc, renderVars, fontVars, truncVars, figmaVars, syncRunning, clock, bucket,
                 writeLog>>

\* await readAdminSyncMeta(fileKey), and the response 423
ReadMeta(r) ==
  /\ requests[r].at = "readMeta"
  /\ \E ok \in BOOLEAN :
       IF ok
       THEN /\ syncRunning' = [syncRunning EXCEPT ![requests[r].proc] = FALSE]
            /\ Answered(r, 423)
       ELSE /\ requests' = [requests EXCEPT ![r] = ThrownIn(requests[r].proc)]
            /\ UNCHANGED syncRunning
  /\ UNCHANGED <<pc, renderVars, fontVars, truncVars, figmaVars, clock, bucket, writeLog>>

\* await writeAdminSyncLock(fileKey, ...)
WriteLock(r) ==
  /\ requests[r].at = "writeLock"
  /\ \E ok \in BOOLEAN :
       IF ok
       THEN /\ bucket' = [bucket EXCEPT !.lock = SyncLock(r, requests[r].proc, requests[r].now)]
            /\ writeLog' = writeLog \cup {Written(requests[r].dry, "lock")}
            /\ requests' = [requests EXCEPT ![r] = [@ EXCEPT !.at = "init"]]
       ELSE /\ requests' = [requests EXCEPT ![r] = ThrownIn(requests[r].proc)]
            /\ UNCHANGED <<bucket, writeLog>>
  /\ UNCHANGED <<pc, renderVars, fontVars, truncVars, figmaVars, syncRunning, clock>>

\* a step of the try block: the meta record is saved, and what the step
\* saves when the run is no dry run; a call that throws leads to the catch
Step(r) ==
  /\ requests[r].at \in BodySteps
  /\ \E ok \in BOOLEAN :
       IF ok
       THEN /\ UNCHANGED bucket
            /\ writeLog' = writeLog \cup {Written(requests[r].dry, "meta")}
                 \cup (IF savesSnapshots(requests[r].dry)
                       THEN {Written(requests[r].dry, key) : key \in snapshotsOf(requests[r].at)}
                       ELSE {})
            /\ requests' = [requests EXCEPT ![r] =
                 [@ EXCEPT !.at = stepAfter(requests[r].at),
                           !.status = IF requests[r].at = "finish" THEN 200 ELSE @]]
       ELSE /\ requests' = [requests EXCEPT ![r] = [@ EXCEPT !.at = "catch"]]
            /\ UNCHANGED <<bucket, writeLog>>
  /\ UNCHANGED <<pc, renderVars, fontVars, truncVars, figmaVars, syncRunning, clock>>

\* the catch clause: the meta record is saved with the error
Catch(r) ==
  /\ requests[r].at = "catch"
  /\ \E ok \in BOOLEAN :
       IF ok
       THEN /\ UNCHANGED bucket
            /\ writeLog' = writeLog \cup {Written(requests[r].dry, "meta")}
            /\ requests' = [requests EXCEPT ![r] = [@ EXCEPT !.at = "finally", !.status = 500]]
       ELSE /\ requests' = [requests EXCEPT ![r] =
                              [@ EXCEPT !.at = "finally", !.status = -1]]
            /\ UNCHANGED <<bucket, writeLog>>
  /\ UNCHANGED <<pc, renderVars, fontVars, truncVars, figmaVars, syncRunning, clock>>

\* the finally clause: the lock object is deleted, a failure of the delete is
\* swallowed, and the flag is cleared
Finally(r) ==
  /\ requests[r].at = "finally"
  /\ \E ok \in BOOLEAN :
       IF ok
       THEN /\ bucket' = [bucket EXCEPT !.lock = Null]
            /\ writeLog' = writeLog \cup {Deleted(r, requests[r].dry, bucket.lock,
                                                  requests[r].now + ADMIN_SYNC_LOCK_TTL_MS)}
       ELSE UNCHANGED <<bucket, writeLog>>
  /\ syncRunning' = [syncRunning EXCEPT ![requests[r].proc] = FALSE]
  /\ Answered(r, requests[r].status)
  /\ UNCHANGED <<pc, renderVars, fontVars, truncVars, figmaVars, clock>>

\* time passes
Tick ==
  /\ clock < MaxTicks * ADMIN_SYNC_LOCK_TTL_MS
  /\ clock' = clock + ADMIN_SYNC_LOCK_TTL_MS
  /\ UNCHANGED <<pc, renderVars, fontVars, truncVars, figmaVars, syncRunning, requests, bucket,
                 writeLog>>

NextSync ==
  \/ \E r \in Requests :
       Post(r) \/ ReadLock(r) \/ ReadMeta(r) \/ WriteLock(r) \/ Step(r) \/ Catch(r) \/ Finally(r)
  \/ Tick

SpecSync == InitSync /\ [][NextSync]_vars

\* C26: at most one sync run of the file key is between acquiring and
\* releasing the sync lock, whatever the interleaving of the requests and
\* whichever server processes serve them.
C26_OneRunAtATime == Cardinality({r \in Requests : Running(r)}) <= 1

\* two runs in two server processes hold the lock at once: each read the
\* lock before the other wrote it
C26_TwoRunsAtOnce ==
  \E r, q \in Requests :
    /\ Running(r) /\ Running(q)
    /\ requests[r].proc # requests[q].proc
    /\ requests[r].now = requests[q].now
    /\ bucket.lock # Null /\ bucket.lock.writer \in {r, q}

\* C27: once the requests a server process was handed have finished,
\* whatever their outcome, the process's syncRunning flag is false again.
C27_FlagClearedAfterRequests ==
  \A p \in Processes :
    (\A r \in Requests : ~(InFlight(r) /\ requests[r].proc = p)) => ~syncRunning[p]

\* a request threw while the lock was read or written, no request is in
\* flight, and the flag of its process is still set
C27_FlagLeftSet ==
  \E r \in Requests :
    /\ Threw(r)
    /\ \A q \in Requests : ~InFlight(q)
    /\ syncRunning[requests[r].proc]
    /\ writeLog = {}

\* C28: a sync run only ever deletes the lock it wrote itself: a request
\* answered with 423 deletes nothing, and no run deletes the lock written by
\* another run.
C28_DeletesOwnLockOnly ==
  \A e \in writeLog :
    e.op = "delete" =>
      /\ (requests[e.by].at = "done" => requests[e.by].status # 423)
      /\ e.of \in {0, e.by}

\* a run that finished after its lock had expired deleted the lock of a later
\* run that is still in progress
C28_LaterLockDeleted ==
  \E e \in writeLog :
    /\ e.op = "delete" /\ e.of # 0 /\ e.of # e.by
    /\ e.late
    /\ Running(e.of)
    /\ bucket.lock = Null

\* C30: a sync run with dry=1 writes no templates snapshot, frame snapshot,
\* schema snapshot or asset object: the only objects it writes or deletes
\* are the sync lock and the sync meta record.
C30_DryRunWritesLockAndMeta ==
  \A e \in writeLog : e.dry => e.key \in {"lock", "meta"}

\* a dry run that went through every step and was answered with 200
C30_Witness ==
  \E r \in Requests :
    /\ requests[r].at = "done" /\ requests[r].status = 200
    /\ \E e \in writeLog : e.by = r /\ e.dry /\ e.op = "delete" /\ e.of = r
    /\ {e.key : e \in {f \in writeLog : f.dry}} = {"lock", "meta"}
    /\ \E e \in writeLog : ~e.dry /\ e.key = "frame"

====
